---- MODULE Spec2Model ----
(***************************************************************************)
(* Model of the AgentOS workflow engine (agent_os/orchestrator.py): the    *)
(* Orchestrator object, its checkpoint file workflow_state.json, the       *)
(* cascade of phase blocks of run_workflow, the workers it invokes and the *)
(* process terminations and file-system outcomes that surround them.       *)
(*                                                                         *)
(* Texts are sequences of atoms (characters or opaque chunks of text).     *)
(***************************************************************************)
EXTENDS Naturals, Sequences, FiniteSets, TLC

\* ------------------------------------------------------------------------
\* Bounds of the model
\* ------------------------------------------------------------------------

\* number of process terminations (kills, exits) in a behaviour
MaxCrashes == 2

\* number of failures of the environment in a behaviour: a failed write of
\* the state file, a failed read of a well-formed state file, a supplied
\* agent that raises
MaxFaults == 1

\* ------------------------------------------------------------------------
\* Values
\* ------------------------------------------------------------------------

\* Python's None in an attribute that otherwise holds a text
None == <<"<None>">>

\* the phase names, in the order of the blocks of run_workflow
PhaseOrder ==
    << "Idle",
       "Phase 1: Planning",
       "Phase 2: Generation",
       "Phase 3: Initial Review",
       "Phase 4: Feedback & Refinement",
       "Phase 5: Fix & Optimization",
       "Phase 6: Verification & Testing",
       "Phase 7: Finalization",
       "Completed" >>

\* position of a phase name in PhaseOrder
Rank(p) == CHOOSE i \in 1..Len(PhaseOrder) : PhaseOrder[i] = p

\* the goal texts passed to run_workflow
Goals == { << "goal A" >>, << "goal B" >> }

\* ------------------------------------------------------------------------
\* Text functions used by the feedback gate
\* ------------------------------------------------------------------------

\* str.lower on one character (the alphabet of the operator inputs)
LowerChar(c) ==
    CASE c = "A" -> "a"
      [] c = "P" -> "p"
      [] c = "R" -> "r"
      [] c = "O" -> "o"
      [] c = "V" -> "v"
      [] c = "E" -> "e"
      [] OTHER -> c

\* str.lower
Lower(s) == [ i \in 1..Len(s) |-> LowerChar(s[i]) ]

Whitespace == { " ", "\t" }

RECURSIVE LStrip(_)
LStrip(s) ==
    IF s # <<>> /\ Head(s) \in Whitespace THEN LStrip(Tail(s)) ELSE s

RECURSIVE RStrip(_)
RStrip(s) ==
    IF s # <<>> /\ s[Len(s)] \in Whitespace
    THEN RStrip(SubSeq(s, 1, Len(s) - 1))
    ELSE s

\* str.strip
Strip(s) == RStrip(LStrip(s))

Approve == << "a", "p", "p", "r", "o", "v", "e" >>

\* what the operator may type at the prompt of Phase 4
OperatorInputs ==
    { Approve,
      << " ", "A", "p", "p", "r", "o", "v", "e", " " >>,
      << "a", "p", "p", "r", "o", "v", "e", "d" >> }

\* ------------------------------------------------------------------------
\* Workers: the execute_task of the agents in the dictionary
\* ------------------------------------------------------------------------

\* execute_task returned the text t
Ret(t) == [ kind |-> "ret", text |-> t ]

\* execute_task raised the exception e
Raised(e) == [ kind |-> "raise", text |-> << e >> ]

\* the processes of a behaviour, by the number of terminations before them
ProcessNames == << "process 1", "process 2", "process 3", "process 4", "process 5" >>

\* a text that reads as a normal result of agent a, produced in process n
NormalText(a, n) == << "result", a, ProcessNames[n + 1] >>

\* the text _invoke_llm returns when the backend call raised
ApiErrorText == << "ERROR:", "API call failed" >>

\* the text _invoke_llm returns when no client is configured
NoClientText == << "ERROR:", "No LLM clients are configured" >>

\* An agent the caller supplies in place of the repository's classes (the
\* tests pass mocks): it returns a text of its choice or raises.
StubOutcomes(a, n) == { Ret(NormalText(a, n)), Raised("Exception") }

\* the parameter names of Agent._invoke_llm, besides self
InvokeLLMParams == { "preferred_model", "prompt" }

\* the keyword arguments the execute_task of agent a passes to _invoke_llm
CallKeywords(a) == { "model", "prompt" }

\* Python's binding of a call by keywords: every keyword names a parameter
\* and every parameter without a default is given
CallBinds(kw) == kw \subseteq InvokeLLMParams /\ InvokeLLMParams \subseteq kw

\* what the backend does when _invoke_llm reaches it: it answers, it raises,
\* or no client is configured at all
BackendOutcomes == { "ok", "raise", "none" }

\* the text Agent._invoke_llm returns to its caller
InvokeLLM(a, b, n) ==
    CASE b = "none"  -> NoClientText
      [] b = "raise" -> ApiErrorText
      [] OTHER       -> NormalText(a, n)

\* execute_task of the repository's agent a when the backend behaves as b:
\* its first statement that reaches the backend is the call of _invoke_llm
\* by keywords; a call that does not bind raises TypeError at the call site
ExecuteTask(a, b, n) ==
    IF CallBinds(CallKeywords(a))
    THEN Ret(InvokeLLM(a, b, n))
    ELSE Raised("TypeError")

\* the outcomes of agents[a].execute_task(...) for the two kinds of agents
\* dictionary, each paired with the backend behaviour it met
WorkerOutcomes(kind, a, n) ==
    IF kind = "stub"
    THEN { << "n/a", o >> : o \in StubOutcomes(a, n) }
    ELSE { << b, ExecuteTask(a, b, n) >> : b \in BackendOutcomes }

\* ------------------------------------------------------------------------
\* State
\* ------------------------------------------------------------------------

VARIABLES
    orch,        \* the attributes of the Orchestrator object
    state_file,  \* the content of workflow_state.json
    pc,          \* where the process is: "down", "ready", or a line of run_workflow
    futures,     \* the two futures of the Phase 3 executor
    agents,      \* the kind of agents dictionary given to __init__
    calls,       \* the worker calls and prompts of the current run_workflow call
    run_start,   \* workflow_phase when the current run_workflow call was entered
    run_goal,    \* the argument of the current run_workflow call
    loaded,      \* how _load_state ended in this process
    died,        \* where the previous process was when it terminated
    exit,        \* how the last run_workflow call ended
    last_call,   \* the last worker call that ended: agent, backend behaviour, outcome
    user_input,  \* the line read by input() in the current run_workflow call
    runs,        \* whether run_workflow was called in this process: none, first, later
    crashes,     \* the number of process terminations so far
    faults,      \* the number of failures of the environment so far
    coder,       \* a call of CoderAgent.execute_task: its locals and its progress
    llm,         \* config.yaml, the cache of config_loader and the last _invoke_llm
    ledger       \* a ledger file and the threads inside record_interaction

\* the state of the Orchestrator and of its process
orchVars == << orch, state_file, pc, futures, agents, calls, run_start, run_goal,
               loaded, died, exit, last_call, user_input, runs, crashes, faults >>

\* the state of the agents exercised on their own
units == << coder, llm, ledger >>

vars == << orch, state_file, pc, futures, agents, calls, run_start, run_goal,
           loaded, died, exit, last_call, user_input, runs, crashes, faults,
           coder, llm, ledger >>

\* the attributes set by Orchestrator.__init__ before _load_state
FreshAttrs ==
    [ project_requirements |-> <<>>,
      architect_plan       |-> None,
      db_plan              |-> None,
      ui_plan              |-> None,
      full_plan            |-> None,
      generated_code       |-> None,
      qa_feedback          |-> None,
      security_feedback    |-> None,
      pending_tasks        |-> <<>>,
      fixed_code           |-> None,
      qa_verification      |-> None,
      final_documentation  |-> None,
      workflow_phase       |-> "Idle" ]

\* state_file when workflow_state.json does not exist
NoFile == [ exists |-> FALSE, valid |-> FALSE, state |-> FreshAttrs ]

\* state_file after open(STATE_FILE, 'w') truncated it and the dump did not
\* complete: an empty or partial document
Corrupt == [ exists |-> TRUE, valid |-> FALSE, state |-> FreshAttrs ]

\* state_file after json.dump(state) completed
Written(state) == [ exists |-> TRUE, valid |-> TRUE, state |-> state ]

\* a future of the Phase 3 executor: not submitted, submitted and waiting
\* for its thread, running execute_task, or done with the outcome
NotSubmitted == [ kind |-> "none", text |-> <<>> ]
Pending      == [ kind |-> "pending", text |-> <<>> ]
Running      == [ kind |-> "running", text |-> <<>> ]

NoFutures == [ qa |-> NotSubmitted, security |-> NotSubmitted ]

\* last_call before any worker call ended
NoCall == [ agent |-> "none", backend |-> "n/a", outcome |-> NotSubmitted ]

\* died before any process terminated
NoDeath == [ kind |-> "none", phase |-> "Idle", mem |-> "Idle" ]

\* the families of models, in the order _get_available_clients tests them
Families == << "claude", "gemini", "codex" >>

FamilySet == { Families[k] : k \in 1..Len(Families) }

\* llm_client.py lines 15, 27, 40: the api_keys entry the client of a family
\* is made from
ApiKeyOf(f) ==
    CASE f = "claude" -> "anthropic"
      [] f = "gemini" -> "google"
      [] OTHER        -> "openai"

ApiKeyNames == { ApiKeyOf(f) : f \in FamilySet }

\* an api_keys entry: missing or empty, the placeholder of the template, or
\* a key
Credentials == { "absent", "placeholder", "key" }

\* config.yaml does not exist
NoConfigFile ==
    [ exists |-> FALSE, api_keys |-> [ k \in ApiKeyNames |-> "absent" ],
      models |-> "missing" ]

\* config_loader before its first successful load_config
NotLoaded ==
    [ loaded |-> FALSE, api_keys |-> [ k \in ApiKeyNames |-> "absent" ],
      models |-> "missing" ]

\* llm.last before any _invoke_llm
NoInvoke ==
    [ preferred |-> "none", usable |-> {}, available |-> << >>, used |-> "none",
      called |-> "none", model |-> << >>, backend |-> "none",
      result |-> [ kind |-> "none", text |-> << >> ], entry |-> "none",
      success |-> FALSE, logged |-> << >> ]

\* a process that has not called load_config, without config.yaml
LlmIdle ==
    [ config_file |-> NoConfigFile, cache |-> NotLoaded, last |-> NoInvoke,
      invokes |-> 0, edits |-> 0, pc |-> "idle" ]

\* the threads that run the two review tasks of Phase 3
LedgerThreads == { "qa", "security" }

\* a thread that is not inside record_interaction
NotRecording ==
    [ pc |-> "out", n |-> 0, tell |-> 0, pending |-> << >>, size |-> "short",
      closed |-> {} ]

\* the ledger file of a family does not exist and no thread is recording
LedgerIdle ==
    [ file |-> << >>, exists |-> FALSE, cuts |-> 0,
      th |-> [ t \in LedgerThreads |-> NotRecording ] ]

\* CoderAgent before execute_task is called
CoderIdle ==
    [ pc |-> "idle", i |-> 0, j |-> 0, current_draft |-> << >>,
      new_draft |-> << >>, linter_issues |-> "none", ncalls |-> 0,
      last |-> "none", score |-> 0, parsed |-> FALSE, threshold |-> 0,
      passed |-> FALSE, checks |-> 0, clean |-> TRUE, result |-> None,
      reasoning_scratchpad |-> << >>, prompt_reasoning |-> << >>,
      refined_reasoning |-> << >>, score_response |-> << >> ]

\* ------------------------------------------------------------------------
\* Orchestrator._save_state and Orchestrator._load_state
\* ------------------------------------------------------------------------

\* how the assignment of workflow_phase and the call of _save_state that
\* follows it can end: the dump completes; open() raises IOError (logged,
\* the file is untouched); the write raises IOError after open() truncated
\* the file (logged); the process is killed after open() truncated the
\* file; the process is killed after the assignment and before open()
SaveOutcomes == { "ok", "open_fails", "write_fails", "killed", "killed_before" }

\* the content of workflow_state.json after _save_state of the attributes
\* attrs over the content file
SaveState(attrs, file, so) ==
    CASE so = "ok"            -> Written(attrs)
      [] so = "open_fails"    -> file
      [] so = "killed_before" -> file
      [] OTHER                -> Corrupt

\* how a call of _load_state can end on an existing file: the document is
\* read and parsed, or open()/json.load raise (IOError, JSONDecodeError)
LoadOutcomes(file) ==
    IF file.valid THEN { "ok", "fails" } ELSE { "fails" }

\* _load_state that restores the artifacts but not workflow_phase
LoadStateLosesPhase(file, lo) ==
    IF ~file.exists THEN FreshAttrs
    ELSE IF lo = "ok" THEN [ file.state EXCEPT !.workflow_phase = "Idle" ]
    ELSE [ FreshAttrs EXCEPT !.workflow_phase = "Idle" ]

\* the attributes after _load_state
LoadState(file, lo) ==
    IF ~file.exists THEN FreshAttrs
    ELSE IF lo = "ok" THEN file.state
    ELSE [ FreshAttrs EXCEPT !.workflow_phase = "Idle" ]

\* ------------------------------------------------------------------------
\* The process
\* ------------------------------------------------------------------------

\* the lines of run_workflow that test workflow_phase, with the phase each
\* tests for, the line of the next test and the lines inside the block
Blocks ==
    << [ at |-> "L123", phase |-> "Phase 1: Planning",               next |-> "L133",
         inside |-> { "L125", "L126", "L127" } ],
       [ at |-> "L133", phase |-> "Phase 2: Generation",             next |-> "L140",
         inside |-> { "L135" } ],
       [ at |-> "L140", phase |-> "Phase 3: Initial Review",         next |-> "L158",
         inside |-> { "L146", "L150", "L151", "L152" } ],
       [ at |-> "L158", phase |-> "Phase 4: Feedback & Refinement",  next |-> "L188",
         inside |-> { "L170" } ],
       [ at |-> "L188", phase |-> "Phase 5: Fix & Optimization",     next |-> "L197",
         inside |-> { "L191" } ],
       [ at |-> "L197", phase |-> "Phase 6: Verification & Testing", next |-> "L206",
         inside |-> { "L199" } ],
       [ at |-> "L206", phase |-> "Phase 7: Finalization",           next |-> "L215",
         inside |-> { "L208" } ],
       [ at |-> "L215", phase |-> "Completed",                       next |-> "ready",
         inside |-> {} ] >>

\* the block of run_workflow that runs phase p
BlockOf(p) == CHOOSE i \in 1..Len(Blocks) : Blocks[i].phase = p

\* Where a terminated process was: "boundary" at the test of the block of
\* the phase the state file records, with nothing but that checkpoint in
\* memory; "mid" inside the block of the phase the state file records.
DeathKind(line, attrs, file) ==
    IF attrs.workflow_phase = "Idle" \/ ~file.valid THEN "other"
    ELSE IF line = Blocks[BlockOf(attrs.workflow_phase)].at /\ file = Written(attrs)
         THEN "boundary"
    ELSE IF /\ line \in Blocks[BlockOf(attrs.workflow_phase)].inside
            /\ file.state.workflow_phase = attrs.workflow_phase
         THEN "mid"
    ELSE "other"

\* where a terminated process was: the kind of place, the phase in the state
\* file and the phase in memory
Death(line, attrs, file) ==
    [ kind  |-> DeathKind(line, attrs, file),
      phase |-> IF file.valid THEN file.state.workflow_phase ELSE "Idle",
      mem   |-> attrs.workflow_phase ]

\* where a process was that terminated at `line` after it had assigned the
\* phase of attrs to the memory `before`, and before _save_state
DeathBeforeSave(line, before, attrs, file) ==
    [ Death(line, before, file) EXCEPT !.mem = attrs.workflow_phase ]

\* the process is gone: d tells where it was
Down(d) ==
    /\ pc' = "down"
    /\ orch' = FreshAttrs
    /\ futures' = NoFutures
    /\ calls' = <<>>
    /\ run_start' = "Idle"
    /\ run_goal' = <<>>
    /\ loaded' = "none"
    /\ exit' = "none"
    /\ died' = d
    /\ runs' = "none"
    /\ crashes' = crashes + 1

\* the state after Orchestrator(agents) in a directory without a state file
OrchInit ==
    /\ orch = FreshAttrs
    /\ state_file = NoFile
    /\ pc = "ready"
    /\ futures = NoFutures
    /\ agents \in { "stub", "real" }
    /\ calls = <<>>
    /\ run_start = "Idle"
    /\ run_goal = <<>>
    /\ loaded = "fresh"
    /\ died = NoDeath
    /\ exit = "none"
    /\ last_call = NoCall
    /\ user_input = None
    /\ runs = "none"
    /\ crashes = 0
    /\ faults = 0

\* a new process in a directory without workflow_state.json and config.yaml
Init ==
    /\ OrchInit
    /\ coder = CoderIdle
    /\ llm = LlmIdle
    /\ ledger = LedgerIdle

\* The process terminates (it is killed, or the script ends) at a line
\* before the assignment of the next phase; the memory of the Orchestrator
\* is lost.
Crash ==
    /\ pc # "down"
    /\ crashes < MaxCrashes
    /\ Down(Death(pc, orch, state_file))
    /\ last_call' = NoCall
    /\ user_input' = None
    /\ UNCHANGED << state_file, agents, faults >>
    /\ UNCHANGED units

\* Orchestrator.__init__ in a new process: the attributes are initialised
\* and _load_state reads workflow_state.json if it exists.
Construct ==
    /\ pc = "down"
    /\ \E k \in { "stub", "real" },
          lo \in (IF state_file.exists THEN LoadOutcomes(state_file) ELSE { "ok" }) :
          /\ (state_file.valid /\ lo = "fails") => faults < MaxFaults
          /\ faults' = IF state_file.valid /\ lo = "fails" THEN faults + 1 ELSE faults
          /\ agents' = k
          /\ orch' = LoadState(state_file, lo)
          /\ loaded' = IF ~state_file.exists THEN "fresh"
                       ELSE IF lo = "ok" THEN "loaded" ELSE "failed"
    /\ pc' = "ready"
    /\ UNCHANGED << state_file, futures, calls, run_start, run_goal, died,
                    exit, last_call, user_input, runs, crashes >>
    /\ UNCHANGED units

\* the outcomes in which the process is killed
Killed(so) == so \in { "killed", "killed_before" }

\* the terminations and file-system failures the bounds of the model allow
SaveAllowed(so) ==
    CASE so = "ok"            -> TRUE
      [] so = "killed"        -> crashes < MaxCrashes
      [] so = "killed_before" -> crashes < MaxCrashes
      [] OTHER                -> faults < MaxFaults

\* _save_state at the end of a block of run_workflow, then on to line next
SaveAndGo(attrs, next, so) ==
    /\ SaveAllowed(so)
    /\ state_file' = SaveState(attrs, state_file, so)
    /\ faults' = IF so \in { "open_fails", "write_fails" } THEN faults + 1 ELSE faults
    /\ IF so = "killed"
       THEN Down([ kind |-> "other", phase |-> "Idle", mem |-> attrs.workflow_phase ])
       ELSE IF so = "killed_before"
       THEN Down(DeathBeforeSave(pc, orch, attrs, state_file))
       ELSE /\ orch' = attrs
            /\ pc' = next
            /\ UNCHANGED << calls, run_start, run_goal, loaded, died, exit, runs,
                            crashes >>

\* an exception leaves run_workflow; the Orchestrator object lives on
RaiseOut ==
    /\ pc' = "ready"
    /\ exit' = "raised"
    /\ UNCHANGED << state_file, calls, run_start, run_goal, loaded, died,
                    runs, crashes >>

\* a raise of a supplied agent is a failure of the environment
IsFault(w) == agents = "stub" /\ w[2].kind = "raise"
WorkerAllowed(w) == IsFault(w) => faults < MaxFaults
FaultsAfter(w) == IF IsFault(w) THEN faults + 1 ELSE faults

\* the record of a call of agents[a].execute_task, or of the prompt
Invoke(a) == calls' = Append(calls, << orch.workflow_phase, a >>)

\* line 116 without its test: every call of run_workflow takes the goal
TakesGoalAlways(phase) == TRUE

\* line 116: the test that decides whether run_workflow takes its argument
TakesGoal(phase) == phase = "Idle"

\* lines 117-118 without the assignment of the goal
StartRunDropsGoal(o, goal) == [ o EXCEPT !.workflow_phase = "Phase 1: Planning" ]

\* lines 117-118: the goal is stored and the phase becomes Planning
StartRun(o, goal) ==
    [ o EXCEPT !.project_requirements = goal,
               !.workflow_phase = "Phase 1: Planning" ]

\* run_workflow(goal), lines 116-121: only an Idle engine takes the goal
RunWorkflow ==
    /\ pc = "ready"
    /\ \E goal \in Goals :
          IF TakesGoal(orch.workflow_phase)
          THEN \E so \in SaveOutcomes :
                  /\ SaveAllowed(so)
                  /\ state_file' = SaveState(StartRun(orch, goal), state_file, so)
                  /\ faults' = IF so \in { "open_fails", "write_fails" }
                               THEN faults + 1 ELSE faults
                  /\ IF so = "killed"
                     THEN Down([ kind |-> "other", phase |-> "Idle",
                                 mem |-> "Phase 1: Planning" ])
                     ELSE IF so = "killed_before"
                     THEN Down(DeathBeforeSave(pc, orch, StartRun(orch, goal),
                                               state_file))
                     ELSE /\ orch' = StartRun(orch, goal)
                          /\ pc' = "L123"
                          /\ run_goal' = goal
                          /\ run_start' = orch.workflow_phase
                          /\ calls' = <<>>
                          /\ exit' = "none"
                          /\ runs' = IF runs = "none" THEN "first" ELSE "later"
                          /\ UNCHANGED << futures, loaded, died, crashes >>
          ELSE /\ pc' = "L123"
               /\ run_goal' = goal
               /\ run_start' = orch.workflow_phase
               /\ calls' = <<>>
               /\ exit' = "none"
               /\ runs' = IF runs = "none" THEN "first" ELSE "later"
               /\ UNCHANGED << orch, state_file, futures, loaded, died, crashes, faults >>
    /\ last_call' = NoCall
    /\ user_input' = None
    /\ UNCHANGED agents
    /\ UNCHANGED units

\* an `if self.workflow_phase == ...` whose test is false: the block is skipped
SkipBlock ==
    \E i \in 1..(Len(Blocks) - 1) :
        /\ pc = Blocks[i].at
        /\ orch.workflow_phase # Blocks[i].phase
        /\ pc' = Blocks[i].next
        /\ UNCHANGED << orch, state_file, futures, agents, calls, run_start,
                        run_goal, loaded, died, exit, last_call, user_input, runs, crashes, faults >>
        /\ UNCHANGED units

\* a step of a block that only moves to line l having called or prompted a
EnterCall(at, phase, a, l) ==
    /\ pc = at
    /\ orch.workflow_phase = phase
    /\ Invoke(a)
    /\ pc' = l
    /\ UNCHANGED << orch, state_file, futures, agents, run_start, run_goal,
                    loaded, died, exit, last_call, user_input, runs, crashes, faults >>
    /\ UNCHANGED units

\* line 125: the result of the architect
StoreArchitectPlan(o, t) == [ o EXCEPT !.architect_plan = t ]

\* line 126: the result of the database agent
StoreDbPlan(o, t) == [ o EXCEPT !.db_plan = t ]

\* f"{architect_plan}\n\n{db_plan}\n\n{ui_plan}"
FullPlan(a, d, u) == a \o << "\n\n" >> \o d \o << "\n\n" >> \o u

\* lines 127-130: the result of the UI agent, the combined plan, the phase
StorePlans(o, t) ==
    [ o EXCEPT !.ui_plan = t,
               !.full_plan = FullPlan(o.architect_plan, o.db_plan, t),
               !.workflow_phase = "Phase 2: Generation" ]

\* lines 135-137 with the coder's result stored as the plan as well
StoreGeneratedOverPlan(o, t) ==
    [ o EXCEPT !.generated_code = t, !.full_plan = t,
               !.workflow_phase = "Phase 3: Initial Review" ]

\* lines 135-137: the result of the coder, the phase
StoreGenerated(o, t) ==
    [ o EXCEPT !.generated_code = t, !.workflow_phase = "Phase 3: Initial Review" ]

\* lines 191-194 without pending_tasks.clear()
StoreFixedKeepsPending(o, t) ==
    [ o EXCEPT !.fixed_code = t,
               !.workflow_phase = "Phase 6: Verification & Testing" ]

\* lines 191-194 with the phase set past Verification
StoreFixedSkipsVerification(o, t) ==
    [ o EXCEPT !.fixed_code = t,
               !.pending_tasks = <<>>,
               !.workflow_phase = "Phase 7: Finalization" ]

\* lines 191-194: the fixed code, pending_tasks.clear(), the phase
StoreFixed(o, t) ==
    [ o EXCEPT !.fixed_code = t,
               !.pending_tasks = <<>>,
               !.workflow_phase = "Phase 6: Verification & Testing" ]

\* lines 199-203: the result of the QA agent, the phase
StoreVerification(o, t) ==
    [ o EXCEPT !.qa_verification = t, !.workflow_phase = "Phase 7: Finalization" ]

\* lines 208-212: the documentation, the phase
StoreDocumentation(o, t) ==
    [ o EXCEPT !.final_documentation = t, !.workflow_phase = "Completed" ]

\* the assignment of the result t of the worker call made at line at,
\* with the statements that follow it up to the next call or _save_state
StoreResult(at, o, t) ==
    CASE at = "L125" -> StoreArchitectPlan(o, t)
      [] at = "L126" -> StoreDbPlan(o, t)
      [] at = "L127" -> StorePlans(o, t)
      [] at = "L135" -> StoreGenerated(o, t)
      [] at = "L191" -> StoreFixed(o, t)
      [] at = "L199" -> StoreVerification(o, t)
      [] OTHER       -> StoreDocumentation(o, t)

\* a worker call in the middle of a block ends: its result is stored and
\* agent a2 is called next, at line l
CallThenCall(at, a, a2, l) ==
    /\ pc = at
    /\ \E w \in WorkerOutcomes(agents, a, crashes) :
          /\ WorkerAllowed(w)
          /\ faults' = FaultsAfter(w)
          /\ last_call' = [ agent |-> a, backend |-> w[1], outcome |-> w[2] ]
          /\ IF w[2].kind = "raise"
             THEN RaiseOut /\ UNCHANGED orch
             ELSE /\ orch' = StoreResult(at, orch, w[2].text)
                  /\ Invoke(a2)
                  /\ pc' = l
                  /\ UNCHANGED << state_file, run_start, run_goal, loaded, died,
                                  exit, runs, crashes >>
    /\ UNCHANGED << futures, agents, user_input >>
    /\ UNCHANGED units

\* the last worker call of a block ends: its result is stored together
\* with the next phase, and the state is saved
CallEnds(at, a, next) ==
    /\ pc = at
    /\ \E w \in WorkerOutcomes(agents, a, crashes), so \in SaveOutcomes :
          /\ WorkerAllowed(w)
          /\ last_call' = IF w[2].kind # "raise" /\ Killed(so)
                          THEN NoCall
                          ELSE [ agent |-> a, backend |-> w[1], outcome |-> w[2] ]
          /\ IF w[2].kind = "raise"
             THEN /\ so = "ok" /\ faults' = FaultsAfter(w) /\ RaiseOut
                  /\ UNCHANGED << orch, user_input >>
             ELSE /\ SaveAndGo(StoreResult(at, orch, w[2].text), next, so)
                  /\ user_input' = IF Killed(so) THEN None ELSE user_input
    /\ UNCHANGED << futures, agents >>
    /\ UNCHANGED units

\* Phase 1, line 125: the architect is called
PlanningCallsArchitect ==
    EnterCall("L123", "Phase 1: Planning", "architect", "L125")

\* Phase 1, lines 125-126: the architect returns, the database agent is called
PlanningCallsDatabase ==
    CallThenCall("L125", "architect", "database", "L126")

\* Phase 1, lines 126-127: the database agent returns, the UI agent is called
PlanningCallsUi ==
    CallThenCall("L126", "database", "ui_ux", "L127")

\* Phase 1, lines 127-131: the UI agent returns, the plans are combined, the
\* phase becomes Generation and the state is saved
PlanningEnds == CallEnds("L127", "ui_ux", "L133")

\* Phase 2, line 135: the coder is called with the full plan
GenerationCallsCoder ==
    EnterCall("L133", "Phase 2: Generation", "coder", "L135")

\* Phase 2, lines 135-138
GenerationEnds == CallEnds("L135", "coder", "L140")

\* Phase 3, lines 142-145: the QA task is submitted to the executor, whose
\* thread may begin it at once
ReviewSubmitsQa ==
    /\ pc = "L140"
    /\ orch.workflow_phase = "Phase 3: Initial Review"
    /\ futures' = [ futures EXCEPT !.qa = Pending ]
    /\ pc' = "L146"
    /\ UNCHANGED << orch, state_file, agents, calls, run_start, run_goal,
                    loaded, died, exit, last_call, user_input, runs, crashes, faults >>
    /\ UNCHANGED units

\* Phase 3, line 146: the security task is submitted; the QA task may
\* already be running or done in its thread
ReviewSubmitsSecurity ==
    /\ pc = "L146"
    /\ futures' = [ futures EXCEPT !.security = Pending ]
    /\ pc' = "L150"
    /\ UNCHANGED << orch, state_file, agents, calls, run_start, run_goal,
                    loaded, died, exit, last_call, user_input, runs, crashes, faults >>
    /\ UNCHANGED units

\* the lines of Phase 3 at which a thread of the executor may run
ReviewLines == { "L146", "L150", "L151", "L152" }

\* a thread of the executor begins agents[t].execute_task(generated_code)
ReviewTaskStarts ==
    \E t \in { "qa", "security" } :
        /\ pc \in ReviewLines
        /\ futures[t] = Pending
        /\ futures' = [ futures EXCEPT ![t] = Running ]
        /\ Invoke(t)
        /\ UNCHANGED << orch, state_file, pc, agents, run_start, run_goal,
                        loaded, died, exit, last_call, user_input, runs, crashes, faults >>
        /\ UNCHANGED units

\* a thread of the executor ends its task: the future holds the outcome
ReviewTaskEnds ==
    \E t \in { "qa", "security" } :
        /\ pc \in ReviewLines
        /\ futures[t] = Running
        /\ \E w \in WorkerOutcomes(agents, t, crashes) :
              /\ WorkerAllowed(w)
              /\ faults' = FaultsAfter(w)
              /\ last_call' = [ agent |-> t, backend |-> w[1], outcome |-> w[2] ]
              /\ futures' = [ futures EXCEPT ![t] = w[2] ]
        /\ UNCHANGED << orch, state_file, pc, agents, calls, run_start,
                        run_goal, loaded, died, exit, user_input, runs, crashes >>
        /\ UNCHANGED units

\* a result() that does not wait for the task
IsDoneAlways(f) == TRUE

\* the future holds an outcome
IsDone(f) == f.kind \in { "ret", "raise" }

\* Phase 3, line 150: future_qa.result() returns or raises; an exception
\* first waits in the executor's __exit__ for the other thread
ReviewAwaitsQa ==
    /\ pc = "L150"
    /\ IsDone(futures.qa)
    /\ IF futures.qa.kind = "ret"
       THEN /\ orch' = [ orch EXCEPT !.qa_feedback = futures.qa.text ]
            /\ pc' = "L151"
       ELSE /\ pc' = "L152"
            /\ UNCHANGED orch
    /\ UNCHANGED << state_file, futures, agents, calls, run_start, run_goal,
                    loaded, died, exit, last_call, user_input, runs, crashes, faults >>
    /\ UNCHANGED units

StoreSecurityFeedback(o, t) ==
    [ o EXCEPT !.security_feedback = t,
               !.workflow_phase = "Phase 4: Feedback & Refinement" ]

\* Phase 3, lines 151-156: future_security.result() returns, the phase
\* becomes Feedback and the state is saved; or it raises
ReviewEnds ==
    /\ pc = "L151"
    /\ IsDone(futures.security)
    /\ futures' = NoFutures
    /\ \E so \in SaveOutcomes :
          IF futures.security.kind = "raise"
          THEN so = "ok" /\ RaiseOut /\ UNCHANGED << orch, faults, last_call >>
          ELSE /\ SaveAndGo(StoreSecurityFeedback(orch, futures.security.text), "L158", so)
               /\ last_call' = IF Killed(so) THEN NoCall ELSE last_call
    /\ UNCHANGED << agents, user_input >>
    /\ UNCHANGED units

\* Phase 3: the exception of the QA task leaves the with block once the
\* security thread has ended
ReviewUnwinds ==
    /\ pc = "L152"
    /\ IsDone(futures.security)
    /\ futures' = NoFutures
    /\ RaiseOut
    /\ UNCHANGED << orch, agents, last_call, user_input, faults >>
    /\ UNCHANGED units

\* lines 159-170 with the pending tasks of lines 172-175 built before input()
FeedbackPromptsBuildsTasks ==
    /\ pc = "L158"
    /\ orch.workflow_phase = "Phase 4: Feedback & Refinement"
    /\ Invoke("operator")
    /\ pc' = "L170"
    /\ orch' = [ orch EXCEPT !.pending_tasks =
                    << [ source |-> "QA", feedback |-> orch.qa_feedback ],
                       [ source |-> "Security", feedback |-> orch.security_feedback ] >> ]
    /\ UNCHANGED << state_file, futures, agents, run_start, run_goal,
                    loaded, died, exit, last_call, user_input, runs, crashes, faults >>
    /\ UNCHANGED units

\* Phase 4, lines 159-170: the feedback is printed and input() waits
FeedbackPrompts ==
    EnterCall("L158", "Phase 4: Feedback & Refinement", "operator", "L170")

\* lines 172-181 with the input compared as typed, without lower().strip()
PendingTasksExact(qa, security, line) ==
    LET automated == << [ source |-> "QA", feedback |-> qa ],
                        [ source |-> "Security", feedback |-> security ] >>
    IN  IF line = Approve
        THEN automated
        ELSE Append(automated, [ source |-> "Human Operator", feedback |-> line ])

\* lines 172-181: the pending tasks built from the two reviews and the input
PendingTasks(qa, security, line) ==
    LET automated == << [ source |-> "QA", feedback |-> qa ],
                        [ source |-> "Security", feedback |-> security ] >>
    IN  IF Strip(Lower(line)) = Approve
        THEN automated
        ELSE Append(automated, [ source |-> "Human Operator", feedback |-> line ])

StorePending(o, line) ==
    [ o EXCEPT !.pending_tasks = PendingTasks(o.qa_feedback, o.security_feedback, line),
               !.workflow_phase = "Phase 5: Fix & Optimization" ]

\* Phase 4, lines 170-186: the operator's line arrives
FeedbackEnds ==
    /\ pc = "L170"
    /\ \E line \in OperatorInputs, so \in SaveOutcomes :
          /\ user_input' = IF Killed(so) THEN None ELSE line
          /\ last_call' = IF Killed(so) THEN NoCall ELSE last_call
          /\ SaveAndGo(StorePending(orch, line), "L188", so)
    /\ UNCHANGED << futures, agents >>
    /\ UNCHANGED units

\* Phase 5, lines 190-191: the coder is called with the code and the feedback
FixCallsCoder ==
    EnterCall("L188", "Phase 5: Fix & Optimization", "coder", "L191")

\* Phase 5, lines 191-195
FixEnds == CallEnds("L191", "coder", "L197")

\* Phase 6, line 199: the QA agent is called with the fixed code
VerificationCallsQa ==
    EnterCall("L197", "Phase 6: Verification & Testing", "qa", "L199")

\* Phase 6, lines 199-204
VerificationEnds == CallEnds("L199", "qa", "L206")

\* Phase 7, line 208: the documentation agent is called with the fixed code
FinalizationCallsDocumentation ==
    EnterCall("L206", "Phase 7: Finalization", "documentation", "L208")

\* Phase 7, lines 208-213
FinalizationEnds == CallEnds("L208", "documentation", "L215")

\* lines 215-217: the completion message, then run_workflow returns
Finish ==
    /\ pc = "L215"
    /\ pc' = "ready"
    /\ exit' = "returned"
    /\ UNCHANGED << orch, state_file, futures, agents, calls, run_start,
                    run_goal, loaded, died, last_call, user_input, runs, crashes, faults >>
    /\ UNCHANGED units

Next ==
    \/ Construct
    \/ Crash
    \/ RunWorkflow
    \/ SkipBlock
    \/ PlanningCallsArchitect
    \/ PlanningCallsDatabase
    \/ PlanningCallsUi
    \/ PlanningEnds
    \/ GenerationCallsCoder
    \/ GenerationEnds
    \/ ReviewSubmitsQa
    \/ ReviewSubmitsSecurity
    \/ ReviewTaskStarts
    \/ ReviewTaskEnds
    \/ ReviewAwaitsQa
    \/ ReviewEnds
    \/ ReviewUnwinds
    \/ FeedbackPrompts
    \/ FeedbackEnds
    \/ FixCallsCoder
    \/ FixEnds
    \/ VerificationCallsQa
    \/ VerificationEnds
    \/ FinalizationCallsDocumentation
    \/ FinalizationEnds
    \/ Finish

Spec == Init /\ [][Next]_vars

\* ------------------------------------------------------------------------
\* CoderAgent.execute_task (agents/coder.py), with _invoke_llm answering
\* by a text of the caller's choice, as the tests patch it
\* ------------------------------------------------------------------------

\* coder.py line 7
MAX_CYCLES == 16

\* coder.py line 8
CRITIQUE_LOOPS == 6

\* the truth value Python gives a str or None
Truthy(t) == t # None /\ t # << >>

\* what _invoke_llm may answer to a prompt for code in cycle i: a text that
\* names the prompt and the cycle, or the empty string
TextResponses(kind, i) == { << kind, i >>, << >> }

\* what _invoke_llm may answer to the prompt for a confidence score
ScoreResponses ==
    { << "6" >>, << "7" >>, << "9" >>, << "1", "0" >>, << >>,
      << "8", "/", "1", "0" >> }

Digits == << "0", "1", "2", "3", "4", "5", "6", "7", "8", "9" >>

\* str.isdigit on a character
IsDigit(c) == \E d \in 1..Len(Digits) : Digits[d] = c

\* ''.join(filter(str.isdigit, s))
DigitsOf(s) == SelectSeq(s, IsDigit)

DigitValue(c) == (CHOOSE d \in 1..Len(Digits) : Digits[d] = c) - 1

\* int(s) of a non-empty string of digits
RECURSIVE ToInt(_)
ToInt(s) ==
    IF Len(s) = 0 THEN 0
    ELSE 10 * ToInt(SubSeq(s, 1, Len(s) - 1)) + DigitValue(s[Len(s)])

\* line 109 with the remainder in place of the quotient
ConfidenceThresholdWraps(cycle_number) == 7 + (cycle_number % 4)

\* line 109: confidence_threshold = 7 + (cycle_number // 4)
ConfidenceThreshold(cycle_number) == 7 + (cycle_number \div 4)

\* _check_confidence, lines 103-115, on the answer s in cycle cycle_number:
\* whether a score was parsed, the score, the threshold, the verdict
CheckConfidence(cycle_number, s) ==
    LET score_str == DigitsOf(s)
    IN  IF Len(score_str) = 0
        THEN [ parsed |-> FALSE, score |-> 0, threshold |-> 0, confident |-> FALSE ]
        ELSE [ parsed    |-> TRUE,
               score     |-> ToInt(score_str),
               threshold |-> ConfidenceThreshold(cycle_number),
               confident |-> ToInt(score_str) >= ConfidenceThreshold(cycle_number) ]

\* how `ruff check` on the draft can end: no output, a report, or ruff is
\* missing or exceeds its timeout
LinterOutcomes == { "silent", "report", "failed" }

\* _run_linter, lines 25-38: None, the report, or the failure message
RunLinter(lo) ==
    CASE lo = "silent" -> None
      [] lo = "report" -> << "ruff report" >>
      [] OTHER         -> << "Linter execution failed" >>

\* what _invoke_llm answers to critique prompt j of cycle i: the code never
\* inspects a reasoning, so one text that names the cycle and the round
\* stands for any answer
ReasoningResponses(i, j) == { << "reasoning", i, j >> }

\* line 58 with the reasoning of the cycle before kept
ScratchpadAtEntryCarried(c) ==
    IF c.i = 0
    THEN << "Initial thoughts: The draft seems to cover the basics." >>
    ELSE c.reasoning_scratchpad

\* line 58: the reasoning _self_critique_loop starts from
ScratchpadAtEntry(c) == << "Initial thoughts: The draft seems to cover the basics." >>

\* the for statement that allows one cycle more
CycleRemainsInclusive(i) == i <= MAX_CYCLES

\* line 126: `for i in range(MAX_CYCLES)` has a cycle left
CycleRemains(i) == i < MAX_CYCLES

\* the critique loop that stops one loop early
CritiqueRemainsShort(j) == j < CRITIQUE_LOOPS - 1

\* line 60: `for i in range(CRITIQUE_LOOPS)` has a loop left
CritiqueRemains(j) == j < CRITIQUE_LOOPS

\* a call of _invoke_llm for the prompt kind
Calls(c, kind) == [ c EXCEPT !.ncalls = @ + 1, !.last = kind ]

\* lines 123-125: execute_task is entered, current_draft = ""
CoderStarts ==
    /\ coder.pc = "idle"
    /\ coder' = [ coder EXCEPT !.pc = "for", !.current_draft = << >>, !.i = 0 ]
    /\ UNCHANGED << orchVars, llm, ledger >>

\* lines 126-129: the next cycle begins; an empty draft is drafted anew
CoderBeginsCycle ==
    /\ coder.pc = "for"
    /\ CycleRemains(coder.i)
    /\ coder' = [ coder EXCEPT
                    !.pc = IF Truthy(coder.current_draft) THEN "critique" ELSE "draft",
                    !.reasoning_scratchpad =
                        IF Truthy(coder.current_draft) THEN ScratchpadAtEntry(coder) ELSE @,
                    !.j = 0 ]
    /\ UNCHANGED << orchVars, llm, ledger >>

\* line 126: range(MAX_CYCLES) is exhausted
CoderExhausts ==
    /\ coder.pc = "for"
    /\ ~CycleRemains(coder.i)
    /\ coder' = [ coder EXCEPT !.pc = "return" ]
    /\ UNCHANGED << orchVars, llm, ledger >>

\* line 129: _draft_initial_answer
CoderDrafts ==
    /\ coder.pc = "draft"
    /\ \E r \in TextResponses("draft", coder.i) :
          coder' = [ Calls(coder, "draft") EXCEPT
                       !.current_draft = r,
                       !.clean = coder.clean /\ Truthy(r),
                       !.reasoning_scratchpad = ScratchpadAtEntry(coder),
                       !.pc = "critique" ]
    /\ UNCHANGED << orchVars, llm, ledger >>

\* lines 60-70: one loop of _self_critique_loop
CoderCritiques ==
    /\ coder.pc = "critique"
    /\ CritiqueRemains(coder.j)
    /\ \E r \in ReasoningResponses(coder.i, coder.j) :
          coder' = [ Calls(coder, "critique") EXCEPT
                       !.prompt_reasoning = coder.reasoning_scratchpad,
                       !.reasoning_scratchpad = r,
                       !.j = coder.j + 1 ]
    /\ UNCHANGED << orchVars, llm, ledger >>

\* lines 72-73 and 130: _self_critique_loop returns its last reasoning and
\* its prompt is gone
CoderEndsCritique ==
    /\ coder.pc = "critique"
    /\ ~CritiqueRemains(coder.j)
    /\ coder' = [ coder EXCEPT !.refined_reasoning = coder.reasoning_scratchpad,
                                !.prompt_reasoning = << >>,
                                !.pc = "revise" ]
    /\ UNCHANGED << orchVars, llm, ledger >>

\* line 131: new_draft = _revise_answer(...)
CoderRevises ==
    /\ coder.pc = "revise"
    /\ \E r \in TextResponses("revised", coder.i) :
          coder' = [ Calls(coder, "revise") EXCEPT
                       !.new_draft = r,
                       !.clean = coder.clean /\ Truthy(r),
                       !.pc = "lint" ]
    /\ UNCHANGED << orchVars, llm, ledger >>

\* lines 132-133 and 145: the linter runs; without issues the revised
\* draft becomes the current draft
CoderLints ==
    /\ coder.pc = "lint"
    /\ \E lo \in LinterOutcomes :
          coder' = IF Truthy(RunLinter(lo))
                   THEN [ coder EXCEPT !.linter_issues = RunLinter(lo),
                                       !.clean = FALSE,
                                       !.pc = "correct" ]
                   ELSE [ coder EXCEPT !.linter_issues = RunLinter(lo),
                                       !.current_draft = coder.new_draft,
                                       !.pc = "confidence" ]
    /\ UNCHANGED << orchVars, llm, ledger >>

\* lines 134-145 with the corrected draft sent back to the linter
CoderCorrectsLintsAgain ==
    /\ coder.pc = "correct"
    /\ \E r \in TextResponses("corrected", coder.i) :
          coder' = [ Calls(coder, "correct") EXCEPT
                       !.new_draft = r,
                       !.pc = "lint" ]
    /\ UNCHANGED << orchVars, llm, ledger >>

\* lines 134-145: the draft is corrected for the linter's issues
CoderCorrects ==
    /\ coder.pc = "correct"
    /\ \E r \in TextResponses("corrected", coder.i) :
          coder' = [ Calls(coder, "correct") EXCEPT
                       !.new_draft = r,
                       !.current_draft = r,
                       !.pc = "confidence" ]
    /\ UNCHANGED << orchVars, llm, ledger >>

\* lines 146-147: _check_confidence(i, current_draft); break when confident
CoderChecksConfidence ==
    /\ coder.pc = "confidence"
    /\ \E s \in ScoreResponses :
          LET v == CheckConfidence(coder.i, s)
          IN  coder' = [ Calls(coder, "confidence") EXCEPT
                           !.score_response = s,
                           !.parsed = v.parsed,
                           !.score = v.score,
                           !.threshold = IF v.parsed THEN v.threshold ELSE @,
                           !.passed = v.confident,
                           !.checks = @ + 1,
                           !.i = IF v.confident THEN @ ELSE @ + 1,
                           !.pc = IF v.confident THEN "return" ELSE "for" ]
    /\ UNCHANGED << orchVars, llm, ledger >>

\* the return statement that falls back to the initial draft when no check
\* passed
ReturnedDraftStale(c) == IF c.passed THEN c.current_draft ELSE << "draft", 0 >>

\* line 148: return current_draft
ReturnedDraft(c) == c.current_draft

CoderReturns ==
    /\ coder.pc = "return"
    /\ coder' = [ coder EXCEPT !.result = ReturnedDraft(coder), !.pc = "done" ]
    /\ UNCHANGED << orchVars, llm, ledger >>

CoderNext ==
    \/ CoderStarts
    \/ CoderBeginsCycle
    \/ CoderExhausts
    \/ CoderDrafts
    \/ CoderCritiques
    \/ CoderEndsCritique
    \/ CoderRevises
    \/ CoderLints
    \/ CoderCorrects
    \/ CoderChecksConfidence
    \/ CoderReturns

\* one call of execute_task
SpecCoder == Init /\ [][CoderNext]_vars

\* one call of execute_task that is not suspended for ever: every call of
\* _invoke_llm and of the linter returns
SpecCoderFair == SpecCoder /\ WF_vars(CoderNext)

\* ------------------------------------------------------------------------
\* Agent._invoke_llm (agents/base.py) with llm_client and config_loader
\* ------------------------------------------------------------------------

\* calls of _invoke_llm in one process
MaxInvokes == 2

\* changes made to config.yaml while the process runs
MaxEdits == 1

\* the `models` section of config.yaml: an identifier for each family, or no
\* section
ModelSections == { "complete", "missing" }

\* the `api_keys` section of config.yaml: a copy of the template, whose
\* entries hold a key or still the placeholder, or a file written by hand,
\* whose entries hold a key or are left out
KeySections ==
    { ks \in [ ApiKeyNames -> Credentials ] :
         \/ \A k \in ApiKeyNames : ks[k] # "absent"
         \/ \A k \in ApiKeyNames : ks[k] # "placeholder" }

\* the well-formed contents of config.yaml, and its absence
ConfigFiles ==
    { NoConfigFile } \cup
    { [ exists |-> TRUE, api_keys |-> ks, models |-> ms ] :
          ks \in KeySections, ms \in ModelSections }

\* config_loader.load_config: the configuration of the first successful
\* load is kept for every later call; a missing file raises FileNotFoundError
LoadConfig(cache, file) ==
    IF cache.loaded
    THEN [ raised |-> FALSE, cache |-> cache ]
    ELSE IF ~file.exists
    THEN [ raised |-> TRUE, cache |-> cache ]
    ELSE [ raised |-> FALSE,
           cache  |-> [ loaded |-> TRUE, api_keys |-> file.api_keys,
                        models |-> file.models ] ]

\* llm_client.py lines 16, 28, 41: `not api_key or api_key == <placeholder>`
\* is false
Configured(key) == key # "absent" /\ key # "placeholder"

\* get_anthropic_client / get_gemini_client / get_openai_client on the
\* outcome c of load_config: a client, or None
GetClient(f, c) == ~c.raised /\ Configured(c.cache.api_keys[ApiKeyOf(f)])

\* the lines of Agent._get_available_clients that call the getters of
\* claude, gemini and codex, in the order of Families
GetterLines == << "L25", "L27", "L29" >>

\* config['models'][family], line 71
ModelName(f) == << "model of", f >>

\* what the client of family f answers when called with the model m
ResponseOf(f, m) == << "response of", f, m >>

\* the fallback that takes the last available client
ResolveFamilyLast(preferred, available) ==
    IF \E k \in 1..Len(available) : available[k] = preferred
    THEN preferred
    ELSE available[Len(available)]

\* lines 49-65: the preferred family if it is available, else the first
\* available one
ResolveFamily(preferred, available) ==
    IF \E k \in 1..Len(available) : available[k] = preferred
    THEN preferred
    ELSE available[1]

\* the ledger entry that names the family asked for
RecordedFamilyPreferred(preferred, used) == preferred

\* line 84: record_interaction(model_family=model_family_to_use, ...)
RecordedFamily(preferred, used) == used

\* the families whose api_keys entry in config.yaml is a key right now
UsableNow(file) ==
    { f \in FamilySet : file.exists /\ Configured(file.api_keys[ApiKeyOf(f)]) }

\* how the call of the client ends: it answers or it raises
ClientOutcomes == { "ok", "raise" }

\* how record_interaction ends: the entry is in the ledger file, or an
\* IOError of open or of the write was caught and it is not
LedgerOutcomes == { "ok", "fail" }

\* knowledge_manager.py lines 45 and 47: the length of a snippet
SnippetLength == 500

\* prompt[:500], response[:500]
Snippet(t) == SubSeq(t, 1, IF Len(t) < SnippetLength THEN Len(t) ELSE SnippetLength)

\* lines 70-74: the model identifier is looked up and the client is called;
\* without a `models` section the lookup raises KeyError before the call
CallClient(c, used, b) ==
    IF c.cache.models = "missing" THEN Raised("KeyError")
    ELSE IF b = "ok" THEN Ret(ResponseOf(used, ModelName(used)))
    ELSE Raised("APIError")

\* an _invoke_llm without its except clause
RecoverFailurePropagates(o) == o

\* lines 79-81: an exception of the try block becomes the response text
RecoverFailure(o) == IF o.kind = "raise" THEN Ret(ApiErrorText) ELSE o

\* base.py lines 43-65: without a client the error text is returned; else
\* the family to use is resolved
Resolves(l) ==
    IF Len(l.last.available) = 0
    THEN [ l EXCEPT !.last.result = Ret(NoClientText),
                    !.invokes = @ + 1,
                    !.pc = "idle" ]
    ELSE [ l EXCEPT !.last.used = ResolveFamily(l.last.preferred, l.last.available),
                    !.pc = "L70" ]

\* base.py lines 25-30: the getter of family number k calls load_config,
\* which reads config.yaml unless an earlier load succeeded; the family
\* joins the available ones if the getter returns a client
GetsClient(l, k) ==
    LET c   == LoadConfig(l.cache, l.config_file)
        got == IF GetClient(Families[k], c)
               THEN Append(l.last.available, Families[k])
               ELSE l.last.available
        m   == [ l EXCEPT !.cache = c.cache, !.last.available = got ]
    IN  IF k < Len(Families)
        THEN [ m EXCEPT !.pc = GetterLines[k + 1] ]
        ELSE Resolves(m)

\* base.py lines 67-81: the model identifier is looked up in the loaded
\* configuration and the client is called, ending as b
CallsClient(l, b) ==
    LET c       == LoadConfig(l.cache, l.config_file)
        used    == l.last.used
        reached == c.cache.models # "missing"
        tried   == CallClient(c, used, b)
    IN  [ l EXCEPT !.cache = c.cache,
                   !.last.called = IF reached THEN used ELSE "none",
                   !.last.model = IF reached THEN ModelName(used) ELSE << >>,
                   !.last.backend = IF reached THEN b ELSE "unreached",
                   !.last.result = RecoverFailure(tried),
                   !.last.success = (tried.kind = "ret"),
                   !.pc = "L83" ]

\* base.py lines 82-90: record_interaction, its write ending as w, then the
\* response is returned
Records(l, w) ==
    [ l EXCEPT !.last.entry = IF w = "ok"
                              THEN RecordedFamily(l.last.preferred, l.last.used)
                              ELSE "none",
               !.last.logged = IF w = "ok" /\ l.last.result.kind = "ret"
                               THEN Snippet(l.last.result.text)
                               ELSE << >>,
               !.invokes = @ + 1,
               !.pc = "idle" ]

\* an agent calls _invoke_llm(preferred, prompt): lines 40-42
LlmInvokes ==
    /\ llm.pc = "idle"
    /\ llm.invokes < MaxInvokes
    /\ \E preferred \in FamilySet :
          llm' = [ llm EXCEPT !.last = [ NoInvoke EXCEPT
                                          !.preferred = preferred,
                                          !.usable = UsableNow(llm.config_file) ],
                              !.pc = GetterLines[1] ]
    /\ UNCHANGED << orchVars, coder, ledger >>

\* one getter of _get_available_clients runs; after the last one the
\* family is resolved
LlmGetsClient ==
    /\ \E k \in 1..Len(GetterLines) :
          /\ llm.pc = GetterLines[k]
          /\ llm' = GetsClient(llm, k)
    /\ UNCHANGED << orchVars, coder, ledger >>

\* the client of the family used is called and answers or raises
LlmCallsClient ==
    /\ llm.pc = "L70"
    /\ \E b \in ClientOutcomes : llm' = CallsClient(llm, b)
    /\ UNCHANGED << orchVars, coder, ledger >>

\* the interaction is recorded and _invoke_llm returns
LlmRecords ==
    /\ llm.pc = "L83"
    /\ \E w \in LedgerOutcomes : llm' = Records(llm, w)
    /\ UNCHANGED << orchVars, coder, ledger >>

\* config.yaml is created, removed or rewritten by its owner, at any moment
LlmEditsConfig ==
    /\ llm.edits < MaxEdits
    /\ \E cf \in ConfigFiles :
          /\ cf # llm.config_file
          /\ llm' = [ llm EXCEPT !.config_file = cf, !.edits = @ + 1 ]
    /\ UNCHANGED << orchVars, coder, ledger >>

\* memory_manager.py lines 27 and 94: a process that imports memory_manager
\* (through orchestrator.py or agents/architect.py) has called load_config
\* at import, an exception of it being caught
ImportedCache(file) == LoadConfig(NotLoaded, file).cache

\* a process before its first _invoke_llm, with any config.yaml: it has
\* not called load_config, or it called it when it imported memory_manager
InvokeInit ==
    /\ OrchInit
    /\ coder = CoderIdle
    /\ \E cf \in ConfigFiles :
          \E c \in { NotLoaded, ImportedCache(cf) } :
             llm = [ LlmIdle EXCEPT !.config_file = cf, !.cache = c ]
    /\ ledger = LedgerIdle

InvokeNext ==
    \/ LlmInvokes
    \/ LlmGetsClient
    \/ LlmCallsClient
    \/ LlmRecords
    \/ LlmEditsConfig

\* the calls of _invoke_llm of one process
SpecInvoke == InvokeInit /\ [][InvokeNext]_vars

\* ------------------------------------------------------------------------
\* KnowledgeManager.record_interaction (knowledge_manager.py) called by the
\* threads of the two review tasks for the same family
\* ------------------------------------------------------------------------

\* calls of record_interaction by one thread
MaxRecords == 2

\* closes of the ledger file whose write fails
MaxCuts == 1

\* the bytes a text file object collects before it passes them on, with
\* open(filename, 'a') as called at line 52
ChunkSize == 8192

\* the bytes of one character written to the file
MaxCharBytes == 4

\* the bytes of the fixed text of one part of an entry, at most
FramingBytes == 100

\* the snippets of an entry: a few characters, or SnippetLength characters
\* of MaxCharBytes each
SnippetSizes == { "short", "long" }

\* line 55: the header a thread writes to a file it found empty
HeaderOf(t, n, size) == << << t, n, "header", size >> >>

\* lines 41-49: the entry, as its status line, prompt snippet and response
\* snippet
EntryOf(t, n, size) ==
    << << t, n, "status", size >>, << t, n, "prompt", size >>,
       << t, n, "response", size >> >>

\* the bytes of a part of the file
PartBytes(part) ==
    IF part[3] \in { "prompt", "response" } /\ part[4] = "long"
    THEN FramingBytes + MaxCharBytes * SnippetLength
    ELSE FramingBytes

RECURSIVE Bytes(_)
Bytes(text) == IF Len(text) = 0 THEN 0 ELSE PartBytes(Head(text)) + Bytes(Tail(text))

\* f.write(text): the text joins the pending bytes of the file object, which
\* are passed on in one piece once they exceed the chunk size
TextWrite(pending, text) ==
    IF Bytes(pending \o text) > ChunkSize
    THEN [ pending |-> << >>, out |-> pending \o text ]
    ELSE [ pending |-> pending \o text, out |-> << >> ]

\* one write of data on a descriptor opened for append: the data go to the
\* end of the file as it is at that moment
RawWrite(file, offset, data) == file \o data

\* the file after the bytes `out` have been passed on by a file object
PassedOn(file, offset, out) == IF Len(out) = 0 THEN file ELSE RawWrite(file, offset, out)

\* line 52: the thread t opens the ledger file for append, or open raises
\* IOError and record_interaction returns (lines 58-59)
LedgerOpens ==
    /\ \E t \in LedgerThreads, size \in SnippetSizes, o \in LedgerOutcomes :
          /\ ledger.th[t].pc = "out"
          /\ ledger.th[t].n < MaxRecords
          /\ ledger' =
                IF o = "ok"
                THEN [ ledger EXCEPT !.exists = TRUE,
                                     !.th[t].pc = "opened",
                                     !.th[t].tell = Len(ledger.file),
                                     !.th[t].size = size ]
                ELSE [ ledger EXCEPT !.th[t].n = @ + 1 ]
    /\ UNCHANGED << orchVars, coder, llm >>

\* lines 54-55: a thread that found the file empty writes the header
LedgerWritesHeader ==
    /\ \E t \in LedgerThreads :
          /\ ledger.th[t].pc = "opened"
          /\ LET me == ledger.th[t]
                 w  == IF me.tell = 0
                       THEN TextWrite(me.pending, HeaderOf(t, me.n + 1, me.size))
                       ELSE [ pending |-> me.pending, out |-> << >> ]
             IN  ledger' = [ ledger EXCEPT
                               !.file = PassedOn(ledger.file, me.tell, w.out),
                               !.th[t].pending = w.pending,
                               !.th[t].pc = "header" ]
    /\ UNCHANGED << orchVars, coder, llm >>

\* line 56: f.write(entry)
LedgerWritesEntry ==
    /\ \E t \in LedgerThreads :
          /\ ledger.th[t].pc = "header"
          /\ LET me == ledger.th[t]
                 w  == TextWrite(me.pending, EntryOf(t, me.n + 1, me.size))
             IN  ledger' = [ ledger EXCEPT
                               !.file = PassedOn(ledger.file, me.tell, w.out),
                               !.th[t].pending = w.pending,
                               !.th[t].pc = "entry" ]
    /\ UNCHANGED << orchVars, coder, llm >>

\* what a write of data that fails (the file may not grow, or not as far as
\* the data need) leaves in the file: nothing, or the first parts of data,
\* the last of them whole or "cut", only its first bytes written
Cuts(data) ==
    UNION { { SubSeq(data, 1, k),
              SubSeq(data, 1, k) \o << [ data[k + 1] EXCEPT ![4] = "cut" ] >> } :
               k \in 0..(Len(data) - 1) }

\* the end of the with statement of line 52: the file object is closed and
\* passes on its pending bytes; if that write fails, the IOError is caught
\* at lines 58-59 and the bytes not written are lost
LedgerCloses ==
    /\ \E t \in LedgerThreads :
          /\ ledger.th[t].pc = "entry"
          /\ LET me == ledger.th[t]
             IN  \/ ledger' = [ ledger EXCEPT
                                  !.file = PassedOn(ledger.file, me.tell, me.pending),
                                  !.th[t].pending = << >>,
                                  !.th[t].closed = @ \cup { me.n + 1 },
                                  !.th[t].n = @ + 1,
                                  !.th[t].pc = "out" ]
                 \/ /\ ledger.cuts < MaxCuts
                    /\ \E written \in Cuts(me.pending) :
                          ledger' = [ ledger EXCEPT
                                        !.file = PassedOn(ledger.file, me.tell, written),
                                        !.cuts = @ + 1,
                                        !.th[t].pending = << >>,
                                        !.th[t].n = @ + 1,
                                        !.th[t].pc = "out" ]
    /\ UNCHANGED << orchVars, coder, llm >>

LedgerNext ==
    \/ LedgerOpens
    \/ LedgerWritesHeader
    \/ LedgerWritesEntry
    \/ LedgerCloses

\* the two review threads recording to one ledger file
SpecLedger == Init /\ [][LedgerNext]_vars

\* ------------------------------------------------------------------------
\* The order of the worker calls
\* ------------------------------------------------------------------------

\* the calls and the prompt of a whole run, the two review tasks starting
\* in the order first, second
Schedule(first, second) ==
    << << "Phase 1: Planning", "architect" >>,
       << "Phase 1: Planning", "database" >>,
       << "Phase 1: Planning", "ui_ux" >>,
       << "Phase 2: Generation", "coder" >>,
       << "Phase 3: Initial Review", first >>,
       << "Phase 3: Initial Review", second >>,
       << "Phase 4: Feedback & Refinement", "operator" >>,
       << "Phase 5: Fix & Optimization", "coder" >>,
       << "Phase 6: Verification & Testing", "qa" >>,
       << "Phase 7: Finalization", "documentation" >> >>

Schedules == { Schedule("qa", "security"), Schedule("security", "qa") }

\* the part of schedule s that belongs to phase p and the phases after it
IsFrom(p, c) == Rank(c[1]) >= Rank(p)
ScheduleFrom(p, s) == SelectSeq(s, LAMBDA c : IsFrom(p, c))

IsPrefix(a, b) == Len(a) <= Len(b) /\ SubSeq(b, 1, Len(a)) = a

\* the calls so far are the first calls of a run that starts in phase p
FollowsSchedule(p) == \E s \in Schedules : IsPrefix(calls, ScheduleFrom(p, s))

\* the calls so far are all the calls of a run that starts in phase p
CompletesSchedule(p) == \E s \in Schedules : calls = ScheduleFrom(p, s)

\* the number of calls of agent a so far
CallCount(a) == Cardinality({ i \in 1..Len(calls) : calls[i][2] = a })

\* the artifact attributes written by the block of phase p
SlotsOf(p) ==
    CASE p = "Phase 1: Planning" -> { "architect_plan", "db_plan", "ui_plan", "full_plan" }
      [] p = "Phase 2: Generation" -> { "generated_code" }
      [] p = "Phase 3: Initial Review" -> { "qa_feedback", "security_feedback" }
      [] p = "Phase 5: Fix & Optimization" -> { "fixed_code" }
      [] p = "Phase 6: Verification & Testing" -> { "qa_verification" }
      [] p = "Phase 7: Finalization" -> { "final_documentation" }
      [] OTHER -> {}

\* the attributes written before phase p is entered
SlotsBefore(p) ==
    { "project_requirements" } \cup
    UNION { SlotsOf(PhaseOrder[i]) : i \in 1..(Rank(p) - 1) }

\* the processes whose workers produced parts of the text t
Stamps(t) ==
    { t[i] : i \in 1..Len(t) } \cap { ProcessNames[i] : i \in 1..Len(ProcessNames) }

\* the lines of run_workflow inside the blocks, where a worker of the
\* phase or the prompt has been called
InsideLines == UNION { Blocks[i].inside : i \in 1..Len(Blocks) }

\* ------------------------------------------------------------------------
\* Claims
\* ------------------------------------------------------------------------

\* C1: a process killed right after the checkpoint of a phase boundary and
\* restarted from the state file runs, in its first run_workflow, exactly
\* the calls of the phase the checkpoint names and of the phases after it,
\* in order: nothing of a completed phase again, nothing skipped.
C1_ResumeAtBoundary ==
    (died.kind = "boundary" /\ loaded = "loaded" /\ runs = "first") =>
        /\ run_start = died.phase
        /\ FollowsSchedule(died.phase)
        /\ (exit = "returned" =>
               /\ CompletesSchedule(died.phase)
               /\ orch.workflow_phase = "Completed")

C1_Witness ==
    /\ died.kind = "boundary"
    /\ died.phase = "Phase 3: Initial Review"
    /\ loaded = "loaded"
    /\ runs = "first"
    /\ exit = "returned"
    /\ Len(calls) = 6

\* C2: the phase only moves forward or is reset to Idle: within a process
\* it never decreases, on disk a valid checkpoint is never replaced by one
\* of an earlier phase, and a process that loaded the checkpoint starts at
\* least as far as the process before it had reached.
C2_PhaseNeverGoesBack ==
    /\ [][ (pc # "down" /\ pc' # "down") =>
              \/ Rank(orch'.workflow_phase) >= Rank(orch.workflow_phase)
              \/ orch'.workflow_phase = "Idle" ]_vars
    /\ [][ (state_file.valid /\ state_file'.valid) =>
              \/ Rank(state_file'.state.workflow_phase)
                     >= Rank(state_file.state.workflow_phase)
              \/ orch.workflow_phase = "Idle" ]_vars
    /\ [] ( (pc = "ready" /\ runs = "none" /\ loaded = "loaded"
                /\ died.kind # "none") =>
              Rank(orch.workflow_phase) >= Rank(died.mem) )

\* C3: a run that starts at Idle and returns has made exactly the calls of
\* the seven phases in order, the coder twice (Phases 2 and 5), the QA
\* worker twice (Phases 3 and 6) and the prompt once, and ends Completed;
\* a run that has not returned has made a prefix of these calls.
C3_UninterruptedRun ==
    (run_start = "Idle" /\ runs # "none" /\ pc # "down") =>
        /\ FollowsSchedule("Phase 1: Planning")
        /\ (exit = "returned" =>
               /\ CompletesSchedule("Phase 1: Planning")
               /\ CallCount("coder") = 2
               /\ CallCount("qa") = 2
               /\ CallCount("operator") = 1
               /\ orch.workflow_phase = "Completed")

C3_Witness ==
    /\ run_start = "Idle"
    /\ runs = "first"
    /\ exit = "returned"
    /\ crashes = 0
    /\ calls = Schedule("security", "qa")

\* C4: run_workflow takes its goal only when the phase is Idle; called in
\* any other phase it leaves the stored requirements and the checkpoint as
\* they are and goes on from the checkpointed phase.
C4_GoalOnlyTakenWhenIdle ==
    /\ [][ (pc = "ready" /\ pc' = "L123") =>
              IF orch.workflow_phase = "Idle"
              THEN /\ orch'.project_requirements = run_goal'
                   /\ orch'.workflow_phase = "Phase 1: Planning"
              ELSE /\ orch' = orch
                   /\ state_file' = state_file
                   /\ run_start' = orch.workflow_phase ]_vars
    /\ [][ (pc = "down" /\ loaded' = "loaded") => orch' = state_file.state ]_vars
    /\ [] ( (runs # "none" /\ pc # "down") => FollowsSchedule(run_start) )

C4_Witness ==
    /\ loaded = "loaded"
    /\ runs = "first"
    /\ run_start = "Phase 2: Generation"
    /\ run_goal # orch.project_requirements
    /\ state_file.valid
    /\ state_file.state.project_requirements = orch.project_requirements
    /\ calls # << >>

\* C5: with no state file the phase is Idle at construction, and the first
\* run_workflow has the goal and the phase Planning on disk before any
\* planning worker is called.
C5_CheckpointBeforePlanning ==
    /\ (loaded = "fresh" /\ runs = "none" /\ pc = "ready") =>
           orch.workflow_phase = "Idle"
    /\ (loaded = "fresh" /\ runs = "first" /\ run_start = "Idle"
            /\ pc = "L125") =>
           state_file = Written(StartRun(FreshAttrs, run_goal))

\* C6: when a worker of a phase (or the prompt) is called, the checkpoint
\* on disk names that phase and holds the artifacts of the phases before it.
C6_CheckpointBeforeNextPhase ==
    (pc \in InsideLines) =>
        /\ state_file.valid
        /\ state_file.state.workflow_phase = orch.workflow_phase
        /\ \A slot \in SlotsBefore(orch.workflow_phase) :
               state_file.state[slot] = orch[slot]

\* C7: a process killed inside a phase and restarted from the state file
\* starts that phase again from its first call and makes every call of it
\* and of the later phases; no result a worker of that phase returned to
\* the killed process is used.
C7_ResumeMidPhase ==
    /\ (died.kind = "mid" /\ loaded = "loaded" /\ pc # "down"
            /\ runs \in { "none", "first" }) =>
           \A slot \in SlotsOf(died.phase) :
               Stamps(orch[slot]) \subseteq { ProcessNames[crashes + 1] }
    /\ (died.kind = "mid" /\ loaded = "loaded" /\ runs = "first") =>
           /\ run_start = died.phase
           /\ FollowsSchedule(died.phase)
           /\ (exit = "returned" => CompletesSchedule(died.phase))

C7_Witness ==
    /\ died.kind = "mid"
    /\ died.phase = "Phase 3: Initial Review"
    /\ loaded = "loaded"
    /\ runs = "first"
    /\ exit = "returned"
    /\ Stamps(orch.qa_feedback) = { ProcessNames[crashes + 1] }

\* C8 as stated: after Phase 4, an input that is exactly "approve" gives
\* the two entries QA and Security; any other input gives a third entry,
\* Human Operator, with the typed text.
C8_ExactApprove ==
    (pc = "L188" /\ user_input # None) =>
        LET automated ==
                << [ source |-> "QA", feedback |-> orch.qa_feedback ],
                   [ source |-> "Security", feedback |-> orch.security_feedback ] >>
        IN  orch.pending_tasks =
                IF user_input = Approve
                THEN automated
                ELSE Append(automated,
                            [ source |-> "Human Operator", feedback |-> user_input ])

\* C8: after Phase 4, an input that equals "approve" once lowercased and
\* stripped of surrounding whitespace gives the two entries QA and
\* Security, in that order; any other input gives a third entry, Human
\* Operator, whose feedback is the text exactly as typed.
C8_NormalisedApprove ==
    (pc = "L188" /\ user_input # None) =>
        LET automated ==
                << [ source |-> "QA", feedback |-> orch.qa_feedback ],
                   [ source |-> "Security", feedback |-> orch.security_feedback ] >>
        IN  /\ SubSeq(orch.pending_tasks, 1, 2) = automated
            /\ (Strip(Lower(user_input)) = Approve =>
                   Len(orch.pending_tasks) = 2)
            /\ (Strip(Lower(user_input)) # Approve =>
                   /\ Len(orch.pending_tasks) = 3
                   /\ orch.pending_tasks[3] =
                          [ source |-> "Human Operator", feedback |-> user_input ])

C8_Witness ==
    /\ pc = "L188"
    /\ user_input # Approve
    /\ Strip(Lower(user_input)) = Approve
    /\ Len(orch.pending_tasks) = 2

\* C9: a worker whose language-model backend fails returns the text that
\* describes the error, and the run is not ended by an exception.
C9_FailingWorkerYieldsText ==
    (last_call.backend = "raise") =>
        /\ last_call.outcome = Ret(ApiErrorText)
        /\ exit # "raised"

\* C10: once the phase is Completed a process changes neither the
\* attributes of the engine nor the state file and calls no worker and no
\* prompt, whatever goal run_workflow is given.
C10_CompletedIsFinal ==
    [][ (orch.workflow_phase = "Completed" /\ pc # "down" /\ pc' # "down") =>
            /\ orch' = orch
            /\ state_file' = state_file
            /\ Len(calls') <= Len(calls)
            /\ user_input' \in { user_input, None } ]_vars

C10_Witness ==
    /\ loaded = "loaded"
    /\ run_start = "Completed"
    /\ exit = "returned"
    /\ calls = << >>
    /\ run_goal # orch.project_requirements

\* C11: a run that reaches Completed has called add_memory of the memory
\* manager exactly once.
C11_ExportedOnce ==
    (exit = "returned" /\ orch.workflow_phase = "Completed"
         /\ run_start # "Completed") =>
        CallCount("memory") = 1

\* C12: execute_task always terminates: whatever the confidence answers
\* (passing, failing, unparseable) and the linter outcomes, the refinement
\* loop runs at most MAX_CYCLES cycles, and a call that was entered returns.
C12_Terminates ==
    /\ [](coder.i <= MAX_CYCLES /\ coder.checks <= MAX_CYCLES)
    /\ (coder.pc # "idle") ~> (coder.pc = "done")

\* all MAX_CYCLES cycles ran, the last with an unparseable answer, and the
\* call returned
C12_Witness ==
    /\ coder.pc = "done"
    /\ coder.checks = MAX_CYCLES
    /\ ~coder.parsed
    /\ Truthy(coder.linter_issues)

\* C13: the confidence threshold used at cycle c is 7 + floor(c / 4), that
\* is 7 + q for the q with 4q <= c < 4q + 4, and the threshold is
\* non-decreasing in c over the cycles below the cap.  The cycle of the
\* latest confidence check is checks - 1, one check being made per cycle.
C13_ThresholdSteps ==
    /\ (coder.checks > 0 /\ coder.parsed) =>
           \E q \in 0..MAX_CYCLES :
               /\ 4 * q <= coder.checks - 1
               /\ coder.checks - 1 < 4 * q + 4
               /\ coder.threshold = 7 + q
               /\ coder.passed = (coder.score >= 7 + q)
    /\ \A c1, c2 \in 0..(MAX_CYCLES - 1) :
           c1 <= c2 => ConfidenceThreshold(c1) <= ConfidenceThreshold(c2)

\* the check of the last cycle, 15, was made against the threshold 10 and
\* failed with a score of 9
C13_Witness ==
    /\ coder.checks = MAX_CYCLES
    /\ coder.parsed
    /\ coder.threshold = 10
    /\ coder.score = 9
    /\ ~coder.passed

\* the kind of the n-th call of _invoke_llm in a run whose drafts are all
\* non-empty and whose linter never reports: the draft, then per cycle
\* CRITIQUE_LOOPS critiques, one revision and one confidence check
ExpectedKind(n) ==
    IF n = 1 THEN "draft"
    ELSE LET r == (n - 2) % (CRITIQUE_LOOPS + 2)
         IN  IF r < CRITIQUE_LOOPS THEN "critique"
             ELSE IF r = CRITIQUE_LOOPS THEN "revise"
             ELSE "confidence"

\* the loop stops at the first cycle whose score meets the threshold: no
\* step of the loop follows a passed check but the return
StopsAtFirstPass ==
    coder.passed =>
        /\ coder.pc \in { "return", "done" }
        /\ coder.parsed
        /\ coder.score >= 7 + ((coder.checks - 1) \div 4)

\* with non-empty drafts and no linter issues the calls come in the order
\* draft, then per cycle 6 critiques, 1 revise, 1 confidence check, and a run
\* passing first at cycle k = checks - 1 has made 1 + (k+1)*(CRITIQUE_LOOPS+2)
CleanRunCalls ==
    coder.clean =>
        /\ coder.ncalls > 0 => coder.last = ExpectedKind(coder.ncalls)
        /\ (coder.pc = "done" /\ coder.passed) =>
               coder.ncalls = 1 + coder.checks * (CRITIQUE_LOOPS + 2)

\* C14 as stated: the loop stops at the first passing cycle and returns that
\* cycle's revised draft, whatever the linter said; clean runs make
\* 1 + (k+1) * (CRITIQUE_LOOPS + 2) calls in the stated order.
C14_ReturnsRevisedDraft ==
    /\ StopsAtFirstPass
    /\ (coder.pc = "done" /\ coder.passed) =>
           coder.result \in TextResponses("revised", coder.checks - 1)
    /\ CleanRunCalls

\* C14: the loop stops at the first passing cycle and returns that cycle's
\* draft, which is its revised draft when the linter had nothing to say and
\* the correction of it when the linter reported issues or could not run;
\* clean runs make 1 + (k+1) * (CRITIQUE_LOOPS + 2) calls in the stated order.
C14_ReturnsCycleDraft ==
    /\ StopsAtFirstPass
    /\ (coder.pc = "done" /\ coder.passed) =>
           coder.result \in
               TextResponses(IF Truthy(coder.linter_issues) THEN "corrected" ELSE "revised",
                             coder.checks - 1)
    /\ CleanRunCalls

\* a clean run that failed the check of cycle 0 and passed that of cycle 1
\* with a score of 9: 17 calls, and the second revised draft is returned
C14_Witness ==
    /\ coder.pc = "done"
    /\ coder.passed
    /\ coder.clean
    /\ coder.checks = 2
    /\ coder.score = 9
    /\ coder.ncalls = 17
    /\ coder.result = << "revised", 1 >>

\* C15: if no cycle's confidence check meets its threshold, execute_task
\* returns after the last allowed cycle, MAX_CYCLES - 1, the draft which that
\* cycle produced (its revised draft, or the correction of it asked for the
\* linter's issues): not an error and not an earlier draft.
C15_ReturnsLastDraft ==
    (coder.pc = "done" /\ ~coder.passed) =>
        /\ coder.checks = MAX_CYCLES
        /\ coder.i = MAX_CYCLES
        /\ coder.result # None
        /\ coder.result \in
               TextResponses(IF Truthy(coder.linter_issues) THEN "corrected" ELSE "revised",
                             MAX_CYCLES - 1)

\* sixteen failed checks, the last on a parsed score, the linter having
\* reported in the last cycle: the correction of cycle 15 is returned
C15_Witness ==
    /\ coder.pc = "done"
    /\ ~coder.passed
    /\ coder.parsed
    /\ coder.checks = MAX_CYCLES
    /\ coder.result = << "corrected", MAX_CYCLES - 1 >>

\* the last _invoke_llm of the process has returned
InvokeReturned == llm.invokes > 0 /\ llm.pc = "idle"

\* the families _get_available_clients returned to the latest _invoke_llm
AvailableSet == { llm.last.available[k] : k \in 1..Len(llm.last.available) }

\* C16 as stated: if the preferred family is not among the available ones
\* but another family is, _invoke_llm calls the client of a different,
\* available family, passes it the model identifier configured for that
\* family, returns what the client answered, and the ledger entry written
\* for the call names the family used, not the preferred one.
C16_FallbackCallsOtherFamily ==
    (/\ InvokeReturned
     /\ AvailableSet # {}
     /\ llm.last.preferred \notin AvailableSet) =>
        /\ llm.last.called \in AvailableSet
        /\ llm.last.called # llm.last.preferred
        /\ llm.last.used = llm.last.called
        /\ llm.last.model = << "model of", llm.last.called >>
        /\ llm.last.backend = "ok" =>
               llm.last.result =
                   Ret(<< "response of", llm.last.called, << "model of", llm.last.called >> >>)
        /\ llm.last.entry # "none" =>
               /\ llm.last.entry = llm.last.called
               /\ llm.last.entry # llm.last.preferred
               /\ llm.last.success = (llm.last.backend = "ok")

\* C16: if the preferred family is not among the available ones but another
\* family is, _invoke_llm resolves to a different, available family and the
\* ledger entry written for the invocation names that family, not the
\* preferred one.  If the configuration holds a model identifier for it, the
\* client of that family is called with that identifier and what it answers
\* is returned; if the configuration holds no model identifiers, no client
\* is called, the error text is returned and the entry records a failure.
C16_FallbackUsesOtherFamily ==
    (/\ InvokeReturned
     /\ AvailableSet # {}
     /\ llm.last.preferred \notin AvailableSet) =>
        /\ llm.last.used \in AvailableSet
        /\ llm.last.used # llm.last.preferred
        /\ llm.last.entry # "none" =>
               /\ llm.last.entry = llm.last.used
               /\ llm.last.entry # llm.last.preferred
               /\ llm.last.success = (llm.last.backend = "ok")
        /\ llm.cache.models = "complete" =>
               /\ llm.last.called = llm.last.used
               /\ llm.last.model = << "model of", llm.last.used >>
               /\ llm.last.backend \in { "ok", "raise" }
               /\ llm.last.backend = "ok" =>
                      llm.last.result =
                          Ret(<< "response of", llm.last.used,
                                 << "model of", llm.last.used >> >>)
        /\ llm.cache.models = "missing" =>
               /\ llm.last.called = "none"
               /\ llm.last.backend = "unreached"
               /\ llm.last.result = Ret(ApiErrorText)
               /\ ~llm.last.success

\* claude was preferred with only gemini and codex available: gemini was
\* called, answered, and is named in the ledger
C16_Witness ==
    /\ InvokeReturned
    /\ llm.last.preferred = "claude"
    /\ llm.last.available = << "gemini", "codex" >>
    /\ llm.last.called = "gemini"
    /\ llm.last.backend = "ok"
    /\ llm.last.entry = "gemini"
    /\ llm.last.result = Ret(ResponseOf("gemini", ModelName("gemini")))

\* the position of a family in the order claude, gemini, codex
PreferenceRank(f) ==
    CASE f = "claude" -> 1
      [] f = "gemini" -> 2
      [] f = "codex"  -> 3

\* C17: resolution follows the order claude, gemini, codex: whatever the set
\* of available families (each of them has its credential in the loaded
\* configuration) and the preferred family, the family used is the
\* preferred one if it is available and otherwise the available family that
\* comes first in that order.
C17_ResolutionOrder ==
    InvokeReturned =>
        /\ AvailableSet \subseteq
               { f \in { "claude", "gemini", "codex" } :
                    /\ llm.cache.loaded
                    /\ llm.cache.api_keys[ApiKeyOf(f)] = "key" }
        /\ AvailableSet # {} =>
               /\ llm.last.preferred \in AvailableSet => llm.last.used = llm.last.preferred
               /\ llm.last.preferred \notin AvailableSet =>
                      /\ llm.last.used \in AvailableSet
                      /\ \A g \in AvailableSet :
                             PreferenceRank(llm.last.used) <= PreferenceRank(g)

\* claude was preferred with gemini and codex available, and gemini, the
\* first of the two in the order, was used
C17_Witness ==
    /\ InvokeReturned
    /\ llm.last.preferred = "claude"
    /\ AvailableSet = { "gemini", "codex" }
    /\ llm.last.used = "gemini"

\* C18: if zero backends are available, _invoke_llm fails with
\* ConfigurationMissing instead of returning a result to its caller, no
\* client is called, and no ledger entry with success = true is written.
C18_FailsWithConfigurationMissing ==
    (InvokeReturned /\ AvailableSet = {}) =>
        /\ llm.last.result = Raised("ConfigurationMissing")
        /\ llm.last.called = "none"
        /\ ~(llm.last.entry # "none" /\ llm.last.success)

\* C19: when no backend credential is usable, the run is aborted before any
\* phase executes: the phase stays at the value the run started with, no
\* artifact is stored by the run, and the run does not reach Completed.
C19_AbortsBeforeAnyPhase ==
    (agents = "real" /\ last_call.backend = "none") =>
        /\ orch.workflow_phase = run_start
        /\ orch.workflow_phase # "Completed"
        /\ calls = << >>

\* the families with a usable credential in the configuration that is on
\* disk, by the order claude, gemini, codex
FirstUsable(usable) ==
    CHOOSE f \in usable : \A g \in usable : PreferenceRank(f) <= PreferenceRank(g)

\* C20: availability is evaluated anew at every _invoke_llm: the backend a
\* call chooses is the one the resolution gives for the credentials that
\* config.yaml holds at the time of that call, whatever it held at the time
\* of earlier calls of the process.
C20_AvailabilityNotCached ==
    InvokeReturned =>
        /\ AvailableSet = llm.last.usable
        /\ llm.last.usable = {} => llm.last.called = "none"
        /\ llm.last.usable # {} =>
               llm.last.called = IF llm.last.preferred \in llm.last.usable
                                 THEN llm.last.preferred
                                 ELSE FirstUsable(llm.last.usable)

\* C21: every _invoke_llm, whether the backend call succeeds or fails,
\* appends one ledger entry to the file of the family used, with success
\* true exactly when the backend call returned without raising and with the
\* response snippet taken from the text returned to the caller.
C21_EveryAttemptRecorded ==
    InvokeReturned =>
        /\ llm.last.entry # "none"
        /\ llm.last.entry = llm.last.used
        /\ llm.last.success = (llm.last.backend = "ok")
        /\ llm.last.logged = Snippet(llm.last.result.text)

\* C22: a failure of the backend call never leaves _invoke_llm as an
\* exception: whenever at least one backend is available the call returns a
\* text, and that text begins with "ERROR:" when the client raised or the
\* model identifier could not be looked up.
C22_FailureBecomesText ==
    (InvokeReturned /\ AvailableSet # {}) =>
        /\ llm.last.result.kind = "ret"
        /\ (llm.last.backend = "raise" \/ llm.cache.models = "missing") =>
               /\ Len(llm.last.result.text) > 0
               /\ llm.last.result.text[1] = "ERROR:"
               /\ ~llm.last.success
        /\ (llm.last.backend = "ok") =>
               llm.last.result.text[1] # "ERROR:"

\* the client of the family used was called and raised, and the caller got
\* the error text
C22_Witness ==
    /\ InvokeReturned
    /\ llm.last.called = "gemini"
    /\ llm.last.backend = "raise"
    /\ llm.last.result = Ret(ApiErrorText)
    /\ llm.last.entry = "gemini"

\* both review tasks have ended and exactly one of them failed
OneReviewFailed ==
    /\ IsDone(futures.qa)
    /\ IsDone(futures.security)
    /\ (futures.qa.kind = "raise") # (futures.security.kind = "raise")

\* the text a slot holds for the outcome o of its task: the result of a task
\* that returned, an error text for a task that failed
YieldsFor(slot, o) ==
    IF o.kind = "ret" THEN slot = o.text
    ELSE slot # None /\ Len(slot) > 0 /\ slot[1] = "ERROR:"

\* C23: when one of the two review tasks fails, the Review phase still
\* yields a result for both: the slot of the failing task holds error text,
\* the other slot the normal result of its task, and the phase becomes
\* Feedback.
C23_ReviewYieldsBoth ==
    [][ (/\ pc \in { "L151", "L152" }
         /\ OneReviewFailed
         /\ futures' = NoFutures
         /\ pc' # "down") =>
            /\ orch'.workflow_phase = "Phase 4: Feedback & Refinement"
            /\ YieldsFor(orch'.qa_feedback, futures.qa)
            /\ YieldsFor(orch'.security_feedback, futures.security) ]_vars

\* the thread of a review task has ended, with a result or an exception
HasEnded(f) == f.kind = "ret" \/ f.kind = "raise"

\* C24: the Review phase joins its two tasks under every interleaving: both
\* are submitted before a result is awaited; the phase does not leave Review
\* and the checkpoint is not written before both have completed; and when
\* the phase advances qa_feedback holds the result of the QA task and
\* security_feedback that of the Security task, whichever ended first.
C24_ReviewJoins ==
    /\ [] ( pc \in { "L150", "L151", "L152" } =>
                /\ futures.qa.kind \in { "pending", "running", "ret", "raise" }
                /\ futures.security.kind \in { "pending", "running", "ret", "raise" }
                /\ (pc = "L151" => futures.qa.kind = "ret")
                /\ (pc = "L152" => futures.qa.kind = "raise") )
    /\ [][ (pc \in { "L146", "L150", "L151", "L152" } /\ pc' # "down") =>
              /\ (orch'.workflow_phase # orch.workflow_phase \/ state_file' # state_file
                     \/ pc' \notin { "L146", "L150", "L151", "L152" }) =>
                     HasEnded(futures.qa) /\ HasEnded(futures.security)
              /\ orch'.workflow_phase # orch.workflow_phase =>
                     /\ orch'.workflow_phase = "Phase 4: Feedback & Refinement"
                     /\ orch'.qa_feedback = futures.qa.text
                     /\ orch'.security_feedback = futures.security.text
                     /\ futures.qa.kind = "ret"
                     /\ futures.security.kind = "ret" ]_vars

\* the security task ended first, the QA task last, and the phase advanced
\* with the result of each in its slot
C24_Witness ==
    /\ pc = "L158"
    /\ orch.workflow_phase = "Phase 4: Feedback & Refinement"
    /\ last_call.agent = "qa"
    /\ last_call.outcome.kind = "ret"
    /\ orch.qa_feedback = last_call.outcome.text
    /\ orch.security_feedback = NormalText("security", crashes)
    /\ state_file.valid
    /\ state_file.state.workflow_phase = "Phase 4: Feedback & Refinement"

\* the parts of the record n of thread t stand in the ledger file at k,
\* k + 1, k + 2, in one piece
WholeEntryAt(k, t, n) ==
    /\ k + 2 <= Len(ledger.file)
    /\ ledger.file[k][1] = t /\ ledger.file[k][2] = n /\ ledger.file[k][3] = "status"
    /\ ledger.file[k + 1][1] = t /\ ledger.file[k + 1][2] = n
    /\ ledger.file[k + 1][3] = "prompt"
    /\ ledger.file[k + 2][1] = t /\ ledger.file[k + 2][2] = n
    /\ ledger.file[k + 2][3] = "response"

\* C25: when the two review threads record to the same ledger file, every
\* entry is appended in one piece: in every interleaving each part of an
\* entry in the file belongs to a whole entry that no other write splits
\* or cuts short, and every record whose file was closed without an error
\* is in the file exactly once.
C25_EntriesAppendedWhole ==
    /\ \A k \in 1..Len(ledger.file) :
          ledger.file[k][3] # "header" =>
              \E j \in { k - 2, k - 1, k } :
                  j >= 1 /\ WholeEntryAt(j, ledger.file[k][1], ledger.file[k][2])
    /\ \A t \in LedgerThreads : \A n \in ledger.th[t].closed :
          Cardinality({ k \in 1..Len(ledger.file) : WholeEntryAt(k, t, n) }) = 1

\* C26: the checkpoint write is atomic with respect to crashes: when the
\* process is killed, inside _save_state or elsewhere, the state file holds
\* the complete previous checkpoint or the complete new one, never an empty
\* or partial document.
C26_CheckpointWriteAtomic ==
    [][ (pc # "down" /\ pc' = "down") =>
            \/ state_file' = state_file
            \/ state_file'.exists /\ state_file'.valid ]_vars

\* C27: a failure of the checkpoint write is fatal: a step of a live process
\* that moves the phase in memory without the checkpoint on disk following
\* it ends the run, so that no worker and no prompt is reached while the
\* checkpoint is behind the phase in memory.
C27_SaveFailureHalts ==
    /\ [][ (/\ pc # "down" /\ pc' # "down"
            /\ orch'.workflow_phase # orch.workflow_phase
            /\ state_file' # Written(orch')) =>
               (pc' = "ready" /\ exit' = "raised") ]_vars
    /\ [] ( pc \in InsideLines =>
               /\ state_file.exists
               /\ state_file.valid
               /\ Rank(state_file.state.workflow_phase) = Rank(orch.workflow_phase) )

\* the artifact slots
ArtifactSlots ==
    { "architect_plan", "db_plan", "ui_plan", "full_plan", "generated_code",
      "qa_feedback", "security_feedback", "fixed_code", "qa_verification",
      "final_documentation" }

\* the phase responsible for a slot
SlotOwner(slot) ==
    CASE slot \in { "architect_plan", "db_plan", "ui_plan", "full_plan" }
                                        -> "Phase 1: Planning"
      [] slot = "generated_code"        -> "Phase 2: Generation"
      [] slot \in { "qa_feedback", "security_feedback" }
                                        -> "Phase 3: Initial Review"
      [] slot = "fixed_code"            -> "Phase 5: Fix & Optimization"
      [] slot = "qa_verification"       -> "Phase 6: Verification & Testing"
      [] slot = "final_documentation"   -> "Phase 7: Finalization"

\* C28: an artifact slot is written only by the phase responsible for it:
\* a step of a running process that changes the slot is a step of that
\* phase, and a process constructed from the checkpoint holds in every slot
\* the value the checkpoint holds.
C28_SlotsWrittenByOwner ==
    /\ [][ (pc # "down" /\ pc' # "down") =>
              \A slot \in ArtifactSlots :
                  orch'[slot] # orch[slot] => orch.workflow_phase = SlotOwner(slot) ]_vars
    /\ [][ (pc = "down" /\ pc' # "down" /\ loaded' = "loaded") =>
              \A slot \in ArtifactSlots : orch'[slot] = state_file.state[slot] ]_vars

\* the code generated in the first process went through a reload and the
\* Review, Feedback and Repair phases of the second process unchanged, and
\* Repair wrote fixed_code
C28_Witness ==
    /\ pc # "down"
    /\ crashes = 1
    /\ loaded = "loaded"
    /\ orch.generated_code = NormalText("coder", 0)
    /\ orch.qa_feedback = NormalText("qa", 1)
    /\ orch.fixed_code = NormalText("coder", 1)
    /\ orch.workflow_phase = "Phase 6: Verification & Testing"

\* C29: while run_workflow waits at input() for the operator it does nothing
\* else: the phase is Feedback, no worker runs, and from the entry of the
\* block until a line arrives no step changes the attributes, the state file
\* or the record of calls; only the arrival of a line (or the end of the
\* process) leaves the wait, so without input the phase stays Feedback.
C29_GateBlocks ==
    /\ [](pc = "L170" =>
            /\ orch.workflow_phase = "Phase 4: Feedback & Refinement"
            /\ futures = NoFutures
            /\ user_input = None
            /\ calls # <<>>
            /\ calls[Len(calls)] = << "Phase 4: Feedback & Refinement", "operator" >>)
    /\ [][ ((pc = "L170" \/ pc' = "L170") /\ user_input' = None /\ pc' # "down") =>
              /\ pc' = "L170"
              /\ orch' = orch
              /\ state_file' = state_file
              /\ futures' = futures
              /\ (pc = "L170" => calls' = calls) ]_vars

\* the process waits at the prompt with the two reviews in memory and the
\* Feedback checkpoint on disk
C29_Witness ==
    /\ pc = "L170"
    /\ orch.qa_feedback = NormalText("qa", 0)
    /\ orch.security_feedback = NormalText("security", 0)
    /\ state_file = Written(orch)

\* C30: within one execute_task the draft call is made in cycle 0 only:
\* no step of a later cycle is a call of _draft_initial_answer, whatever the
\* revise and correction calls returned.
C30_DraftOnlyInCycleZero ==
    [][ (coder'.ncalls = coder.ncalls + 1 /\ coder'.last = "draft") => coder.i = 0 ]_vars

\* the reasoning critique round j of cycle i answered with
RoundAnswers(i, j) == { << "reasoning", i, j >> }

\* C31: every cycle makes exactly CRITIQUE_LOOPS critique calls; the prompt
\* of a round holds the fixed initial reasoning in the first round of a
\* cycle and the answer of the round before in the others, and the revise
\* call is made after round CRITIQUE_LOOPS with the answer of that last
\* round alone.
C31_FixedCritiqueRounds ==
    [][ /\ (coder'.ncalls = coder.ncalls + 1 /\ coder'.last = "critique") =>
              /\ coder.j < CRITIQUE_LOOPS
              /\ coder'.prompt_reasoning \in
                    (IF coder.j = 0
                     THEN { << "Initial thoughts: The draft seems to cover the basics." >> }
                     ELSE RoundAnswers(coder.i, coder.j - 1))
        /\ (coder'.ncalls = coder.ncalls + 1 /\ coder'.last = "revise") =>
              /\ coder.j = CRITIQUE_LOOPS
              /\ coder.last = "critique"
              /\ coder.refined_reasoning \in RoundAnswers(coder.i, CRITIQUE_LOOPS - 1) ]_vars

\* the revise call of the second cycle was made after six rounds with the
\* answer of the sixth round of that cycle
C31_Witness ==
    /\ coder.pc = "lint"
    /\ coder.last = "revise"
    /\ coder.i = 1
    /\ coder.j = CRITIQUE_LOOPS
    /\ coder.refined_reasoning = << "reasoning", 1, CRITIQUE_LOOPS - 1 >>

\* a call of _invoke_llm of the given kind is made in this step
CoderCalls(kind) == coder'.ncalls = coder.ncalls + 1 /\ coder'.last = kind

\* C32: in each cycle a report of the linter on the revised draft is followed
\* by exactly one correction call, whose answer becomes the current draft and
\* goes to the confidence check without being linted again; without issues
\* no correction call is made and the revised draft becomes the current
\* draft.
C32_OneCorrectionPerReport ==
    [][ /\ CoderCalls("correct") =>
              /\ coder.last = "revise"
              /\ Truthy(coder.linter_issues)
              /\ coder'.current_draft \in TextResponses("corrected", coder.i)
              /\ coder'.pc = "confidence"
        /\ (CoderCalls("confidence") /\ coder.linter_issues = << "ruff report" >>) =>
              /\ coder.last = "correct"
              /\ coder.current_draft \in TextResponses("corrected", coder.i)
        /\ (CoderCalls("confidence") /\ coder.linter_issues = None) =>
              /\ coder.last = "revise"
              /\ coder.current_draft = coder.new_draft
              /\ coder.current_draft \in TextResponses("revised", coder.i) ]_vars

\* the linter reported on the revised draft of cycle 0 and, ten calls into
\* the run, the confidence of the one correction has been asked for
C32_Witness ==
    /\ coder.last = "confidence"
    /\ coder.ncalls = CRITIQUE_LOOPS + 4
    /\ coder.linter_issues = << "ruff report" >>
    /\ coder.new_draft = << "corrected", 0 >>
    /\ coder.current_draft = << "corrected", 0 >>

\* C33 as stated: when ruff is missing or exceeds its timeout the cycle
\* makes no correction call, adopts the revised draft unchanged and goes on
\* to the confidence check.
C33_LinterFailureIsNoFinding ==
    [][ /\ CoderCalls("correct") =>
              coder.linter_issues # << "Linter execution failed" >>
        /\ (CoderCalls("confidence") /\
            coder.linter_issues = << "Linter execution failed" >>) =>
              /\ coder.last = "revise"
              /\ coder.current_draft \in TextResponses("revised", coder.i) ]_vars

\* the first maximal run of consecutive digits of s, empty if s has no digit
FirstDigitRun(s) ==
    IF \A k \in 1..Len(s) : ~IsDigit(s[k]) THEN << >>
    ELSE LET a == CHOOSE k \in 1..Len(s) :
                     IsDigit(s[k]) /\ \A m \in 1..(k - 1) : ~IsDigit(s[m])
             b == CHOOSE k \in a..Len(s) :
                     /\ \A m \in a..k : IsDigit(s[m])
                     /\ (k = Len(s) \/ ~IsDigit(s[k + 1]))
         IN  SubSeq(s, a, b)

\* C34 as stated: the score of a confidence answer is the integer of its
\* first run of digits, an answer without a digit is "not confident", and
\* the check of cycle c passes exactly when that score is at least
\* 7 + floor(c / 4).
C34_ScoreIsFirstDigitRun ==
    coder.checks > 0 =>
        LET run == FirstDigitRun(coder.score_response)
        IN  /\ coder.parsed = (Len(run) > 0)
            /\ coder.parsed => coder.score = ToInt(run)
            /\ coder.passed = (Len(run) > 0 /\
                               ToInt(run) >= 7 + ((coder.checks - 1) \div 4))

\* the places of execute_task inside a cycle of the loop
InsideCycle == { "draft", "critique", "revise", "lint", "correct", "confidence" }

\* C35: every cycle index the loop reaches is below MAX_CYCLES and its
\* threshold 7 + floor(c / 4) is at most 10, so in every cycle some score of
\* the scale 1..10 meets the threshold; no threshold the check computed
\* exceeds 10.
C35_ThresholdWithinScale ==
    /\ coder.threshold <= 10
    /\ coder.pc \in InsideCycle =>
          /\ coder.i \in 0..(MAX_CYCLES - 1)
          /\ 7 + (coder.i \div 4) <= 10
          /\ \E s \in 1..10 : s >= 7 + (coder.i \div 4)

\* the last cycle, MAX_CYCLES - 1, ended the loop on a score of 10 against
\* the threshold 10
C35_Witness ==
    /\ coder.pc = "done"
    /\ coder.passed
    /\ coder.checks = MAX_CYCLES
    /\ coder.score = 10
    /\ coder.threshold = 10

\* an exception of a worker leaves run_workflow in this step
WorkerRaiseLeaves == pc \in InsideLines /\ pc' = "ready" /\ exit' = "raised"

\* C36 as stated: when a worker's exception leaves run_workflow (in Review,
\* at the join) the phase is not changed and no checkpoint is written, the
\* checkpoint on disk names that phase, and a later run_workflow of the
\* object starts again in that phase.
C36_WorkerRaiseKeepsPhase ==
    /\ [][ WorkerRaiseLeaves =>
              /\ orch'.workflow_phase = orch.workflow_phase
              /\ state_file' = state_file
              /\ state_file.exists /\ state_file.valid
              /\ state_file.state.workflow_phase = orch.workflow_phase ]_vars
    /\ [][ (pc = "ready" /\ exit = "raised" /\ pc' = "L123") =>
              /\ run_start' = orch.workflow_phase
              /\ orch'.workflow_phase = orch.workflow_phase ]_vars

\* a checkpoint is consistent: the artifacts of the phases before the phase
\* it records are present and those of that phase and the later ones unset
ConsistentCheckpoint(state) ==
    \A slot \in ArtifactSlots :
        IF Rank(SlotOwner(slot)) < Rank(state.workflow_phase)
        THEN state[slot] # None
        ELSE state[slot] = None

\* C37: every checkpoint _save_state wrote records a phase P together with
\* the artifacts of all phases before P (full_plan from Generation on,
\* generated_code from Review on, both feedbacks from Feedback on,
\* fixed_code from Verification on, qa_verification from Finalization on,
\* final_documentation at Completed) and none of P or of a later phase.
C37_CheckpointConsistent ==
    (state_file.exists /\ state_file.valid) => ConsistentCheckpoint(state_file.state)

\* the checkpoint written at the end of Repair by a process that resumed
\* from an earlier checkpoint
C37_Witness ==
    /\ state_file.valid
    /\ state_file.state.workflow_phase = "Phase 6: Verification & Testing"
    /\ state_file.state.generated_code = NormalText("coder", 0)
    /\ state_file.state.fixed_code = NormalText("coder", 1)
    /\ state_file.state.qa_verification = None
    /\ crashes = 1

\* a pending-feedback list as one Feedback phase builds it: QA, Security and
\* at most one entry of the operator
OneRoundOfFeedback(tasks) ==
    /\ Len(tasks) \in { 2, 3 }
    /\ tasks[1].source = "QA"
    /\ tasks[2].source = "Security"
    /\ Len(tasks) = 3 => tasks[3].source = "Human Operator"

\* C38: the pending-feedback list is rebuilt each time the Feedback phase
\* runs: in memory and in every checkpoint it is empty or holds the entries
\* of one round (QA, Security, at most one Human Operator entry), the list
\* the phase leaves holds the reviews in memory and the line just typed, and
\* from the end of Repair on it is empty in memory and in every checkpoint.
C38_PendingRebuiltAndCleared ==
    /\ [](pc # "down" =>
            /\ orch.pending_tasks = << >> \/ OneRoundOfFeedback(orch.pending_tasks)
            /\ Rank(orch.workflow_phase) >= Rank("Phase 6: Verification & Testing")
                  => orch.pending_tasks = << >>)
    /\ [](state_file.valid =>
            /\ \/ state_file.state.pending_tasks = << >>
               \/ OneRoundOfFeedback(state_file.state.pending_tasks)
            /\ Rank(state_file.state.workflow_phase)
                  >= Rank("Phase 6: Verification & Testing")
                  => state_file.state.pending_tasks = << >>)
    /\ [][ (pc = "L170" /\ pc' = "L188") =>
              /\ OneRoundOfFeedback(orch'.pending_tasks)
              /\ orch'.pending_tasks[1].feedback = orch.qa_feedback
              /\ orch'.pending_tasks[2].feedback = orch.security_feedback
              /\ Len(orch'.pending_tasks) = 3 =>
                    orch'.pending_tasks[3].feedback = user_input' ]_vars

\* a process ended while waiting at the prompt; the next one ran the
\* Feedback phase again, got a line that is not an approval, and Repair has
\* emptied the list in memory and in the checkpoint
C38_Witness ==
    /\ crashes = 1
    /\ died.phase = "Phase 4: Feedback & Refinement"
    /\ loaded = "loaded"
    /\ user_input = << "a", "p", "p", "r", "o", "v", "e", "d" >>
    /\ orch.workflow_phase = "Phase 6: Verification & Testing"
    /\ orch.pending_tasks = << >>
    /\ state_file = Written(orch)

\* the places of the ledger file that hold a header
HeaderPlaces == { k \in 1..Len(ledger.file) : ledger.file[k][3] = "header" }

\* C39 as stated: the ledger file holds its header at most once, and before
\* every entry, also when both review threads make the first writes to the
\* new file at the same time.
C39_HeaderOnceAndFirst ==
    /\ Cardinality(HeaderPlaces) <= 1
    /\ Len(ledger.file) > 0 => ledger.file[1][3] = "header"

\* C40: a process constructed on a state file that exists but cannot be read
\* or parsed starts at Idle with every artifact slot unset; its first
\* run_workflow stores the goal it is given and makes the calls of a run
\* from Planning on, and nothing a worker returned to an earlier process is
\* in its attributes.
C40_FailedLoadStartsOver ==
    /\ (loaded = "failed" /\ pc = "ready" /\ runs = "none") =>
           /\ orch.workflow_phase = "Idle"
           /\ \A slot \in ArtifactSlots : orch[slot] = None
           /\ orch.pending_tasks = << >>
    /\ (loaded = "failed" /\ runs = "first") =>
           /\ run_start = "Idle"
           /\ orch.project_requirements = run_goal
           /\ Rank(orch.workflow_phase) >= Rank("Phase 1: Planning")
           /\ FollowsSchedule("Phase 1: Planning")
           /\ \A slot \in ArtifactSlots :
                 Stamps(orch[slot]) \subseteq { ProcessNames[crashes + 1] }
           /\ (exit = "returned" => CompletesSchedule("Phase 1: Planning"))

\* the state file named Review when the process ended; the next process
\* could not read it, planned again for the goal it was given, and its
\* Generation checkpoint has replaced the file
C40_Witness ==
    /\ loaded = "failed"
    /\ runs = "first"
    /\ died.phase = "Phase 3: Initial Review"
    /\ orch.workflow_phase = "Phase 2: Generation"
    /\ orch.project_requirements = run_goal
    /\ Stamps(orch.full_plan) = { ProcessNames[crashes + 1] }
    /\ state_file = Written(orch)

====
